---------------------------- MODULE Spec2Model ----------------------------
(***************************************************************************)
(* Lost-and-found matching backend (Mafqood): the matching pipeline        *)
(* (MatchingService.process_item), its two HTTP entry points (item         *)
(* submission and reprocess), the Celery matching task, the owners'        *)
(* answers to a match, the legacy report endpoints, and the pure functions *)
(* of SimilarityMatcher, ObjectDetector and ImageProcessor.                *)
(*                                                                         *)
(* Numbers.  Component scores are integers in millionths (Unit = 1.0),     *)
(* weights and final scores are integers in thousandths (650 = 0.65).      *)
(* Optional values are sequences: <<>> is None, <<x>> is the value x.      *)
(* Embeddings are integer vectors scaled by 1000 and of Euclidean length   *)
(* 1000 (L2-normalised), so that a dot product divided by 1000 is the      *)
(* cosine similarity in thousandths.                                       *)
(***************************************************************************)
EXTENDS Integers, Sequences, FiniteSets, Bags, TLC

(***************************************************************************)
(* Bounds of the model                                                     *)
(***************************************************************************)
\* number of item ids that submissions can allocate
MaxItems == 2
\* number of pipeline runs (process_item / find_matches_for_item invocations)
MaxRuns == 3

\* number of failures (a database statement or commit that raises, a forward
\* pass of a model that raises) in a run of the system
MaxFaults == 1

\* concurrent request slots (HTTP requests / Celery tasks in flight)
Reqs == {1, 2}
ItemIds == 1..MaxItems
Users == {"u1", "u2"}

None == <<>>
Some(x) == <<x>>

Min(a, b) == IF a <= b THEN a ELSE b
Max(a, b) == IF a >= b THEN a ELSE b
Abs(a) == IF a < 0 THEN -a ELSE a

(***************************************************************************)
(* Images.  An upload is one of a few byte strings; what the image         *)
(* processor, the detector network and the feature network compute from it *)
(* is a fixed function of the bytes.                                       *)
(***************************************************************************)
Images == {"imgA", "imgC", "imgBad"}

\* ImageProcessor.image_to_numpy: Image.open raises on undecodable bytes
Decodable(img) == img # "imgBad"

\* ImageProcessor.validate_image: (is_valid, error_message), first component
validate_image(img) == Decodable(img)

\* ImageProcessor.MAX_DIMENSION
MAX_DIMENSION == 1920

\* ImageProcessor.image_to_numpy on the bytes of a decodable image, given by
\* its mode, its size and its EXIF orientation tag (1: the pixels are stored
\* upright): the image is converted to RGB unless it is RGB, and np.array
\* takes the pixels as they are stored.  The array is described by its
\* channels' mode, its size and the orientation its rows still have.
image_to_numpy(file_data) ==
    [mode |-> "RGB", width |-> file_data.width, height |-> file_data.height,
     orientation |-> file_data.orientation]

\* raw YOLO boxes for an image: <<class_name, confidence in thousandths>>
RawDetections(img) ==
    CASE img = "imgA" -> << <<"person", 910>>, <<"cell phone", 620>> >>
      [] img = "imgC" -> << <<"person", 800>> >>
      [] OTHER -> << >>

\* the feature network's (already L2-normalised) output for an image
RawEmbedding(img) ==
    CASE img = "imgA" -> <<600, 800>>
      [] img = "imgC" -> <<-600, 800>>
      [] OTHER -> <<1000, 0>>


(***************************************************************************)
(* Object detector                                                         *)
(***************************************************************************)
\* ObjectDetector.CLASS_MAPPING: YOLO class name -> item category
CLASS_MAPPING ==
    ("cell phone" :> "phone") @@ ("laptop" :> "electronics") @@
    ("keyboard" :> "electronics") @@ ("mouse" :> "electronics") @@
    ("remote" :> "electronics") @@ ("tv" :> "electronics") @@
    ("backpack" :> "bag") @@ ("handbag" :> "bag") @@ ("suitcase" :> "bag") @@
    ("umbrella" :> "accessories") @@ ("tie" :> "clothing") @@
    ("watch" :> "jewelry") @@ ("ring" :> "jewelry") @@
    ("necklace" :> "jewelry") @@ ("book" :> "documents") @@
    ("wallet" :> "wallet") @@ ("purse" :> "wallet") @@ ("key" :> "keys") @@
    ("keys" :> "keys") @@ ("glasses" :> "accessories") @@
    ("sunglasses" :> "accessories") @@ ("hat" :> "clothing") @@
    ("shoe" :> "clothing") @@ ("boot" :> "clothing") @@ ("bottle" :> "other") @@
    ("cup" :> "other") @@ ("scissors" :> "other") @@
    ("teddy bear" :> "other") @@ ("passport" :> "id") @@ ("id card" :> "id") @@
    ("credit card" :> "wallet")

\* ObjectDetector.map_to_category
map_to_category(class_name) ==
    IF class_name \in DOMAIN CLASS_MAPPING THEN CLASS_MAPPING[class_name]
    ELSE "other"

\* list.sort(key=confidence, reverse=True): stable, an element stays ahead of
\* the later elements of equal confidence
RECURSIVE InsertByConfidence(_, _)
InsertByConfidence(d, sorted) ==
    IF sorted = << >> THEN <<d>>
    ELSE IF Head(sorted)[2] > d[2]
         THEN <<Head(sorted)>> \o InsertByConfidence(d, Tail(sorted))
         ELSE <<d>> \o sorted

RECURSIVE SortByConfidence(_)
SortByConfidence(ds) ==
    IF ds = << >> THEN << >>
    ELSE InsertByConfidence(Head(ds), SortByConfidence(Tail(ds)))

\* the first detection of the list, when its class is in CLASS_MAPPING
FirstMapped_top_only(ds) ==
    IF ds # << >> /\ Head(ds)[1] \in DOMAIN CLASS_MAPPING THEN Some(Head(ds))
    ELSE None

\* the first detection, in list order, whose class is in CLASS_MAPPING
RECURSIVE FirstMapped(_)
FirstMapped(ds) ==
    IF ds = << >> THEN None
    ELSE IF Head(ds)[1] \in DOMAIN CLASS_MAPPING THEN Some(Head(ds))
    ELSE FirstMapped(Tail(ds))

\* ObjectDetector.detect from the boxes of the forward pass on: the boxes are
\* sorted, and the primary class is the category of the first mapped one or,
\* when none maps, the class name of the first one
detect_boxes(model_loaded, boxes) ==
    IF ~model_loaded
    THEN [detections |-> << >>, primary_class |-> None, primary_confidence |-> 0]
    ELSE LET detections == SortByConfidence(boxes)
             mapped == FirstMapped(detections)
         IN  IF detections = << >>
             THEN [detections |-> << >>, primary_class |-> None,
                   primary_confidence |-> 0]
             ELSE IF mapped # None
             THEN [detections |-> detections,
                   primary_class |-> Some(CLASS_MAPPING[mapped[1][1]]),
                   primary_confidence |-> mapped[1][2]]
             ELSE [detections |-> detections,
                   primary_class |-> Some(detections[1][1]),
                   primary_confidence |-> detections[1][2]]

\* ObjectDetector.detect, for a loaded or a missing model (inference that
\* raises is an outcome of the calling step, see ProcUpdate)
detect(model_loaded, img) == detect_boxes(model_loaded, RawDetections(img))

\* ObjectDetector.get_detections_dict (bounding boxes are not modelled)
get_detections_dict(result) ==
    [k \in 1..Len(result.detections) |->
        [class |-> result.detections[k][1],
         confidence |-> result.detections[k][2],
         category |-> map_to_category(result.detections[k][1])]]

(***************************************************************************)
(* Feature extractor                                                       *)
(***************************************************************************)
\* extract without its `self.model is None` guard: a vector comes back even
\* when no model was loaded
extract_unguarded(model_loaded, raised, img) ==
    IF raised THEN None
    ELSE Some(RawEmbedding(img))

\* FeatureExtractor.extract: None when the model is missing or when the
\* forward pass raised (the except branch), else the normalised vector
extract(model_loaded, raised, img) ==
    IF ~model_loaded THEN None
    ELSE IF raised THEN None
    ELSE Some(RawEmbedding(img))

\* np.dot of two scaled vectors, in thousandths
RECURSIVE DotSum(_, _)
DotSum(a, b) ==
    IF a = << >> \/ b = << >> THEN 0
    ELSE Head(a) * Head(b) + DotSum(Tail(a), Tail(b))

Dot(a, b) == LET s == DotSum(a, b)
             IN  IF s >= 0 THEN s \div 1000 ELSE -((-s) \div 1000)

\* FeatureExtractor.similarity: dot product clipped into [0, 1]
similarity(embedding1, embedding2) ==
    IF embedding1 = None \/ embedding2 = None THEN 0
    ELSE Max(0, Min(1000, Dot(embedding1[1], embedding2[1])))

(***************************************************************************)
(* Similarity matcher                                                      *)
(***************************************************************************)
Unit == 1000 * 1000

\* weights under which the visual similarity does not count
WEIGHTS_no_visual ==
    [visual |-> 0, category |-> 150, color |-> 80, brand |-> 20,
     location |-> 70, time |-> 30]

\* SimilarityMatcher.WEIGHTS, in thousandths
WEIGHTS ==
    [visual |-> 650, category |-> 150, color |-> 80, brand |-> 20,
     location |-> 70, time |-> 30]

MIN_VISUAL_SIMILARITY == 100
MIN_FINAL_SCORE == 250
MAX_LOCATION_DISTANCE_KM == 100
MAX_TIME_DIFFERENCE_DAYS == 60
HIGH_CONFIDENCE == 700
MEDIUM_CONFIDENCE == 450
\* Earth's radius in km (_calculate_distance)
EarthRadiusKm == 6371
\* Settings.min_match_similarity
min_match_similarity == 500
\* the scan limit of _get_candidate_items
CandidateLimit == 500
\* the default max_results of find_matches
DefaultMaxResults == 20

\* str.lower() on the strings that occur as metadata
Lower(s) ==
    CASE s = "Black" -> "black"
      [] s = "Dubai Mall" -> "dubai mall"
      [] OTHER -> s

\* Python's `a in b` on the (lower-cased) location names that occur
Contains(a, b) ==
    \/ a = ""
    \/ a = b
    \/ <<a, b>> \in {<<"mall", "dubai mall">>}

\* `x or ""` followed by lower(), for an optional string
OrEmptyLower(opt) == IF opt = None THEN "" ELSE Lower(opt[1])

\* SimilarityMatcher._calculate_distance, in millimetres.  Coordinates are
\* in thousandths of a degree; the model's points share one meridian, where
\* the haversine formula gives R * |delta_lat| (pi taken as 355/113).
calculate_distance(lat1, lon1, lat2, lon2) ==
    IF lat1 = None \/ lon1 = None \/ lat2 = None \/ lon2 = None THEN None
    ELSE Some(Abs(lat2[1] - lat1[1])
              * ((EarthRadiusKm * 355 * 100) \div (113 * 18)))

\* a date_time string that is not in ISO format
Malformed == -1

\* datetime.fromisoformat on a date_time string: the minute it denotes on
\* the model's clock, None for the ValueError on a malformed string
fromisoformat(s) == IF s = Malformed THEN None ELSE Some(s)

\* _calculate_time_difference with the sign of the difference kept
calculate_time_difference_signed(time1, time2) ==
    IF time1 # None /\ fromisoformat(time1[1]) = None THEN None
    ELSE IF time2 # None /\ fromisoformat(time2[1]) = None THEN None
    ELSE IF time1 = None \/ time2 = None THEN None
    ELSE Some(fromisoformat(time1[1])[1] - fromisoformat(time2[1])[1])

\* SimilarityMatcher._calculate_time_difference, in minutes; a date_time is
\* None or a string.  The strings are parsed first, and any exception (a
\* malformed string) gives None; then a missing date_time gives None.
calculate_time_difference(time1, time2) ==
    IF time1 # None /\ fromisoformat(time1[1]) = None THEN None
    ELSE IF time2 # None /\ fromisoformat(time2[1]) = None THEN None
    ELSE IF time1 = None \/ time2 = None THEN None
    ELSE Some(Abs(fromisoformat(time1[1])[1] - fromisoformat(time2[1])[1]))

\* round(x, 3) of a value given in 10^-9, result in thousandths (half to even)
Round3(x) ==
    LET q == x \div Unit
        r == x % Unit
    IN  IF 2 * r > Unit THEN q + 1
        ELSE IF 2 * r < Unit THEN q
        ELSE IF q % 2 = 0 THEN q ELSE q + 1

CategoryScore(source_item, target_item) ==
    IF Lower(source_item.category) = Lower(target_item.category)
    THEN Unit ELSE Unit \div 2

\* the rule shared by colour and brand: 1.0 equal, 0.3 different, 0.7 unknown
OptionalMatch(a, b) ==
    LET sa == OrEmptyLower(a)
        sb == OrEmptyLower(b)
    IN  IF sa # "" /\ sb # "" THEN Some(sa = sb) ELSE None

\* the rule with a score above 1.0 for equal values
OptionalScore_above_one(match) ==
    IF match = None THEN (7 * Unit) \div 10
    ELSE IF match[1] THEN 2 * Unit ELSE (3 * Unit) \div 10

OptionalScore(match) ==
    IF match = None THEN (7 * Unit) \div 10
    ELSE IF match[1] THEN Unit ELSE (3 * Unit) \div 10

\* the location component without the floor of 0.3 under its linear decay
LocationScore_no_floor(source_item, target_item) ==
    LET d == calculate_distance(source_item.latitude, source_item.longitude,
                                target_item.latitude, target_item.longitude)
    IN  IF d # None
        THEN IF d[1] <= Unit THEN Unit
             ELSE IF d[1] <= MAX_LOCATION_DISTANCE_KM * Unit
             THEN Unit - d[1] \div MAX_LOCATION_DISTANCE_KM
             ELSE Unit \div 10
        ELSE Unit \div 2

\* the location component of calculate_match_score, in millionths: by the
\* distance (1 km is Unit millimetres) when both items have coordinates, else
\* by the location names ("" is a missing name)
LocationScore(source_item, target_item) ==
    LET location(d, source_loc, target_loc) ==
            IF d # None
            THEN IF d[1] <= Unit THEN Unit
                 ELSE IF d[1] <= MAX_LOCATION_DISTANCE_KM * Unit
                 THEN Max((3 * Unit) \div 10,
                          Unit - d[1] \div MAX_LOCATION_DISTANCE_KM)
                 ELSE Unit \div 10
            ELSE IF source_loc # "" /\ target_loc # ""
                 THEN IF source_loc = target_loc THEN Unit
                      ELSE IF Contains(source_loc, target_loc)
                              \/ Contains(target_loc, source_loc)
                      THEN (8 * Unit) \div 10
                      ELSE Unit \div 2
                 ELSE Unit \div 2
    IN  location(calculate_distance(source_item.latitude,
                                    source_item.longitude,
                                    target_item.latitude,
                                    target_item.longitude),
                 Lower(source_item.location), Lower(target_item.location))

TimeScore(source_item, target_item) ==
    LET time(time_diff) ==
            IF time_diff # None
            THEN IF time_diff[1] <= 24 * 60 THEN Unit
                 ELSE IF time_diff[1] <= MAX_TIME_DIFFERENCE_DAYS * 24 * 60
                 THEN Max((3 * Unit) \div 10,
                          Unit - (time_diff[1] * 10000)
                                 \div ((MAX_TIME_DIFFERENCE_DAYS * 24 * 60)
                                       \div 100))
                 ELSE Unit \div 10
            ELSE Unit \div 2
    IN  time(calculate_time_difference(source_item.date_time,
                                       target_item.date_time))

\* SimilarityMatcher.calculate_match_score.  visual_similarity is in
\* thousandths; raw_score is the unrounded weighted sum in 10^-9, from which
\* the confidence tier is taken; final_score is round(raw, 3) in thousandths.
\* scored builds the scores of the six components, weighted their weighted
\* sum, MatchCandidate the returned object.
calculate_match_score(visual_similarity, source_item, target_item) ==
    LET category_match ==
            Lower(source_item.category) = Lower(target_item.category)
        MatchCandidate(color, brand, s, raw) ==
            [item_id |-> target_item.id,
             visual_similarity |-> visual_similarity,
             category_match |-> category_match,
             color_match |-> IF color # None THEN color[1] ELSE FALSE,
             brand_match |-> IF brand # None THEN brand[1] ELSE FALSE,
             scores |-> s,
             raw_score |-> raw,
             final_score |-> Round3(raw),
             confidence |->
                 IF raw >= HIGH_CONFIDENCE * Unit THEN "high"
                 ELSE IF raw >= MEDIUM_CONFIDENCE * Unit THEN "medium"
                 ELSE "low"]
        weighted(color, brand, s) ==
            MatchCandidate(color, brand, s,
                s.visual * WEIGHTS.visual + s.category * WEIGHTS.category
                + s.color * WEIGHTS.color + s.brand * WEIGHTS.brand
                + s.location * WEIGHTS.location + s.time * WEIGHTS.time)
        scored(color, brand) ==
            weighted(color, brand,
                [visual |-> visual_similarity * (Unit \div 1000),
                 category |-> CategoryScore(source_item, target_item),
                 color |-> OptionalScore(color),
                 brand |-> OptionalScore(brand),
                 location |-> LocationScore(source_item, target_item),
                 time |-> TimeScore(source_item, target_item)])
    IN  scored(OptionalMatch(source_item.color, target_item.color),
               OptionalMatch(source_item.brand, target_item.brand))

\* list.sort(key=final_score, reverse=True), stable
RECURSIVE InsertByScore(_, _)
InsertByScore(m, sorted) ==
    IF sorted = << >> THEN <<m>>
    ELSE IF Head(sorted).final_score > m.final_score
         THEN <<Head(sorted)>> \o InsertByScore(m, Tail(sorted))
         ELSE <<m>> \o sorted

\* the candidates left in the order of the loop
SortByScore_unsorted(ms) == ms

RECURSIVE SortByScore(_)
SortByScore(ms) ==
    IF ms = << >> THEN << >>
    ELSE InsertByScore(Head(ms), SortByScore(Tail(ms)))

\* the loop of find_matches without its pre-filter on visual similarity
RECURSIVE ScoreCandidates_no_prefilter(_, _, _, _)
ScoreCandidates_no_prefilter(source_embedding, source_item, candidates, min_score) ==
    IF candidates = << >> THEN << >>
    ELSE LET c == Head(candidates)
             visual_sim ==
                 IF source_embedding # None /\ c.embedding # None
                 THEN Max(0, Min(1000, Dot(source_embedding[1], c.embedding[1])))
                 ELSE 0
             match == calculate_match_score(visual_sim, source_item, c.metadata)
             rest == ScoreCandidates_no_prefilter(source_embedding, source_item,
                                                  Tail(candidates), min_score)
         IN  IF match.final_score >= min_score THEN <<match>> \o rest
             ELSE rest

\* the loop of find_matches: pre-filter on visual similarity, then threshold
RECURSIVE ScoreCandidates(_, _, _, _)
ScoreCandidates(source_embedding, source_item, candidates, min_score) ==
    IF candidates = << >> THEN << >>
    ELSE LET c == Head(candidates)
             visual_sim ==
                 IF source_embedding # None /\ c.embedding # None
                 THEN Max(0, Min(1000, Dot(source_embedding[1], c.embedding[1])))
                 ELSE 0
             match == calculate_match_score(visual_sim, source_item, c.metadata)
             rest == ScoreCandidates(source_embedding, source_item,
                                     Tail(candidates), min_score)
         IN  IF visual_sim < MIN_VISUAL_SIMILARITY THEN rest
             ELSE IF match.final_score >= min_score THEN <<match>> \o rest
             ELSE rest

\* find_matches without the threshold on final_score
find_matches_no_threshold(source_embedding, source_item, candidates, min_score, max_results) ==
    LET matches == SortByScore(ScoreCandidates(source_embedding, source_item,
                                               candidates, 0))
    IN  SubSeq(matches, 1, Min(Len(matches), max_results))

\* SimilarityMatcher.find_matches; min_score is optional (None = not given)
\* and `min_score or MIN_FINAL_SCORE` also replaces a given 0
find_matches(source_embedding, source_item, candidates, min_score, max_results) ==
    LET threshold == IF min_score = None \/ min_score[1] = 0
                     THEN MIN_FINAL_SCORE ELSE min_score[1]
        matches == SortByScore(ScoreCandidates(source_embedding, source_item,
                                               candidates, threshold))
    IN  SubSeq(matches, 1, Min(Len(matches), max_results))

(***************************************************************************)
(* Database rows, sessions and requests                                    *)
(***************************************************************************)
\* the metadata a submission form can carry
PhoneForm ==
    [category |-> "phone", brand |-> None, color |-> Some("Black"),
     location |-> "Dubai Mall", latitude |-> None, longitude |-> None,
     date_time |-> Some(0)]

WalletForm ==
    [category |-> "wallet", brand |-> None, color |-> Some("brown"),
     location |-> "marina", latitude |-> None, longitude |-> None,
     date_time |-> Some(200000)]

\* the submissions the model draws from: who submits, which image, which
\* form; to POST /lost and to POST /found
LostSubmissions ==
    { [user |-> "u1", image |-> "imgA", meta |-> PhoneForm],
      [user |-> "u2", image |-> "imgBad", meta |-> PhoneForm] }

FoundSubmissions ==
    { [user |-> "u2", image |-> "imgA", meta |-> WalletForm] }

\* the columns process_item writes, and those an UPDATE of an item can carry
AICols == {"ai_processed", "ai_category", "detected_objects", "embedding"}
Cols == AICols \cup {"match_count"}

\* Item(...) as the submission endpoints construct it
NewItem(type, user, meta) ==
    [type |-> type, user_id |-> user, status |-> "open", meta |-> meta,
     ai_processed |-> FALSE, ai_category |-> None, detected_objects |-> None,
     embedding |-> None, match_count |-> 0]

\* MatchingService._item_to_dict
item_to_dict(id, item) ==
    [id |-> id, type |-> item.type, category |-> item.meta.category,
     brand |-> item.meta.brand, color |-> item.meta.color,
     location |-> item.meta.location, latitude |-> item.meta.latitude,
     longitude |-> item.meta.longitude, date_time |-> item.meta.date_time]

\* Match(...) as _create_match and the matching task construct it; the
\* confirmations of the two owners are not passed and start unset
NewMatch(user_item_id, candidate) ==
    [user_item_id |-> user_item_id, matched_item_id |-> candidate.item_id,
     similarity_score |-> candidate.final_score,
     confidence |-> candidate.confidence, status |-> "pending",
     user_item_owner_confirmed |-> None,
     matched_item_owner_confirmed |-> None]

\* the columns an ORM flush puts into the UPDATE: those whose value differs
\* from the value loaded or last flushed
Changed(mem, base) == {c \in Cols : mem[c] # base[c]}

\* the row after an UPDATE of the columns cols to the values of mem
ApplyUpdate(row, mem, cols) ==
    [f \in DOMAIN row |-> IF f \in cols THEN mem[f] ELSE row[f]]

RECURSIVE SeqToBag(_)
SeqToBag(sq) ==
    IF sq = << >> THEN EmptyBag ELSE SetToBag({Head(sq)}) (+) SeqToBag(Tail(sq))

\* number of Match rows of a bag with the given (user_item, matched_item)
RECURSIVE SumCopies(_, _)
SumCopies(bag, rows) ==
    IF rows = {} THEN 0
    ELSE LET m == CHOOSE x \in rows : TRUE
         IN  CopiesIn(m, bag) + SumCopies(bag, rows \ {m})

PairRows(bag, a, b) ==
    SumCopies(bag, {m \in BagToSet(bag) :
                       m.user_item_id = a /\ m.matched_item_id = b})

UserItemRows(bag, a) ==
    SumCopies(bag, {m \in BagToSet(bag) : m.user_item_id = a})

NoRow == NewItem("lost", "u1", PhoneForm)

\* a request slot with no request in it
IdleReq ==
    [kind |-> "idle", pc |-> "idle", item |-> 0, image |-> "imgBad",
     mem |-> NoRow, base |-> NoRow, wr |-> {}, pend |-> << >>,
     expired |-> FALSE, aborted |-> FALSE, err |-> "", embedding |-> None,
     fetched |-> FALSE, matches_found |-> 0, during |-> {}, skipped |-> << >>]

VARIABLES
    dbItems,          \* committed rows of the items table, by id
    dbMatches,        \* committed rows of the matches table (a bag)
    dbNotifications,  \* committed rows of the notifications table (a bag)
    uploads,          \* ./uploads/items/<id>.jpg, by item id
    rowLock,          \* item id -> request whose open transaction wrote it, or 0
    nextItem,         \* next item id to allocate
    nextRun,          \* pipeline runs started so far, plus one
    faults,           \* failures so far
    detector_model,   \* ObjectDetector.model is loaded (not None)
    extractor_model,  \* FeatureExtractor.model is loaded (not None)
    req,              \* request slot -> request and its database session
    matcher_call,     \* a direct call of the SimilarityMatcher: arguments, result
    legacy,           \* the legacy /api endpoints: items table, reports, response
    service_call      \* a direct call of the detector or the image processor

vars == <<dbItems, dbMatches, dbNotifications, uploads, rowLock, nextItem,
          nextRun, faults, detector_model, extractor_model, req, matcher_call,
          legacy, service_call>>

\* the state of the API's database, files, models and requests
api == <<dbItems, dbMatches, dbNotifications, uploads, rowLock, nextItem,
         nextRun, faults, detector_model, extractor_model, req>>

\* no direct call of the matcher
NoCall ==
    [kind |-> "none", done |-> FALSE, visual_similarity |-> 0,
     source_embedding |-> None, source_item |-> << >>, target_item |-> << >>,
     candidates |-> << >>, min_score |-> None, max_results |-> 0,
     score |-> << >>, matches |-> << >>]

\* no direct call of the detector or the image processor
NoServiceCall ==
    [kind |-> "none", done |-> FALSE, model_loaded |-> TRUE, results |-> << >>,
     image_data |-> << >>, result |-> << >>]

\* the legacy database before any report
NoLegacy == [items |-> << >>, pending |-> << >>, last |-> None]

\* MatchingService.__init__ -> _load_model of both services: the models are
\* loaded or, when the ML packages are missing (ImportError), both left None
Init ==
    /\ dbItems = << >>
    /\ dbMatches = EmptyBag
    /\ dbNotifications = EmptyBag
    /\ uploads = << >>
    /\ rowLock = [i \in ItemIds |-> 0]
    /\ nextItem = 1
    /\ nextRun = 1
    /\ faults = 0
    /\ detector_model \in BOOLEAN
    /\ extractor_model = detector_model
    /\ req = [r \in Reqs |-> IdleReq]
    /\ matcher_call = NoCall
    /\ legacy = NoLegacy
    /\ service_call = NoServiceCall

\* requests between process_item's update of the AI fields and its commit
InProcess(r) == req[r].pc \in {"candidates", "commit"}

Opposite(type) == IF type = "lost" THEN "found" ELSE "lost"

RECURSIVE IdsToSeq(_)
IdsToSeq(S) ==
    IF S = {} THEN << >>
    ELSE LET m == CHOOSE x \in S : \A y \in S : x <= y
         IN  <<m>> \o IdsToSeq(S \ {m})

\* _get_candidate_items without the owner condition of its SELECT
get_candidate_items_any_owner(items, item_type, exclude_user_id, limit) ==
    LET selected == IdsToSeq({i \in DOMAIN items :
                        /\ items[i].type = item_type
                        /\ items[i].status = "open"
                        /\ items[i].ai_processed = TRUE
                        /\ items[i].embedding # None})
        limited == SubSeq(selected, 1, Min(Len(selected), limit))
        kept == SelectSeq(limited, LAMBDA i : items[i].embedding[1] # << >>)
    IN  [k \in 1..Len(kept) |->
            [embedding |-> items[kept[k]].embedding,
             metadata |-> item_to_dict(kept[k], items[kept[k]])]]

\* MatchingService._get_candidate_items over the committed rows: the SELECT
\* with its LIMIT, then the rows with a non-empty embedding as
\* (embedding, metadata) pairs
get_candidate_items(items, item_type, exclude_user_id, limit) ==
    LET selected == IdsToSeq({i \in DOMAIN items :
                        /\ items[i].type = item_type
                        /\ items[i].status = "open"
                        /\ items[i].user_id # exclude_user_id
                        /\ items[i].ai_processed = TRUE
                        /\ items[i].embedding # None})
        limited == SubSeq(selected, 1, Min(Len(selected), limit))
        kept == SelectSeq(limited, LAMBDA i : items[i].embedding[1] # << >>)
    IN  [k \in 1..Len(kept) |->
            [embedding |-> items[kept[k]].embedding,
             metadata |-> item_to_dict(kept[k], items[kept[k]])]]

SetReq(r, rec) == req' = [req EXCEPT ![r] = rec]

\* n calls of this step raise
Fails(n) ==
    /\ faults + n <= MaxFaults
    /\ faults' = faults + n

\* a database call of this step raises (failed) or not
DbCall(failed) == Fails(IF failed THEN 1 ELSE 0)

\* a new request takes the lowest free slot (slots are interchangeable)
CanStart(r) ==
    /\ req[r].pc = "idle"
    /\ \A o \in Reqs : o < r => req[o].pc # "idle"

Unlock(r, item) ==
    rowLock' = [i \in ItemIds |->
                   IF i = item /\ rowLock[i] = r THEN 0 ELSE rowLock[i]]

\* create_lost_item / create_found_item up to `await db.refresh(item)`:
\* the item is added, flushed, its image file written and the row committed.
\* No validation of the image bytes takes place.  commit_fails: the commit
\* raises and the request ends with that error; the file it wrote stays on
\* disk under an id that no row carries, and no request can name it.
CreateItem(r, type, user, image, meta, commit_fails) ==
    /\ CanStart(r)
    /\ nextItem <= MaxItems
    /\ nextRun <= MaxRuns
    /\ DbCall(commit_fails)
    /\ LET id == nextItem
           row == NewItem(type, user, meta)
           q == [IdleReq EXCEPT !.kind = "submit", !.pc = "analyse",
                                !.item = id, !.image = image,
                                !.mem = row, !.base = row]
       IN  IF commit_fails
           THEN UNCHANGED <<dbItems, uploads, nextItem, nextRun, req>>
           ELSE /\ dbItems' = dbItems @@ (id :> row)
                /\ uploads' = uploads @@ (id :> image)
                /\ nextItem' = nextItem + 1
                /\ nextRun' = nextRun + 1
                /\ SetReq(r, q)
    /\ UNCHANGED <<dbMatches, dbNotifications, rowLock, detector_model,
                   extractor_model>>

create_lost_item(r, user, image, meta, commit_fails) ==
    CreateItem(r, "lost", user, image, meta, commit_fails)

create_found_item(r, user, image, meta, commit_fails) ==
    CreateItem(r, "found", user, image, meta, commit_fails)

\* reprocess_item up to the call of process_item: load the item, check the
\* owner, read the stored image
reprocess_item(r, item_id, user) ==
    /\ CanStart(r)
    /\ nextRun <= MaxRuns
    /\ LET q == [IdleReq EXCEPT !.kind = "reprocess", !.item = item_id]
           \* 404, 403 and 400 end the request before any write
           refused == UNCHANGED <<nextRun, req>>
       IN  IF item_id \notin DOMAIN dbItems THEN refused
           ELSE IF dbItems[item_id].user_id # user THEN refused
           ELSE IF item_id \notin DOMAIN uploads THEN refused
           ELSE /\ SetReq(r, [q EXCEPT !.pc = "analyse",
                                  !.image = uploads[item_id],
                                  !.mem = dbItems[item_id],
                                  !.base = dbItems[item_id]])
                /\ nextRun' = nextRun + 1
    /\ UNCHANGED <<dbItems, dbMatches, dbNotifications, uploads, rowLock,
                   nextItem, faults, detector_model, extractor_model>>

\* the assignment without its `if embedding is not None`
AssignEmbedding_unconditional(current, embedding) == embedding

\* process_item, `if embedding is not None: item.embedding = ...`: the value
\* of item.embedding after step 4, given its value before and the result of
\* extract
AssignEmbedding(current, embedding) ==
    IF embedding # None THEN embedding ELSE current

\* process_item from its entry to `await db.flush()`: fetch the item (the
\* object the session has loaded), decode, detect, extract, assign the AI
\* fields, flush.  det_raises / ext_raises: the forward pass of a loaded model
\* raises.  The UPDATE of the flush carries the changed columns and takes the
\* row's write lock, which the transaction keeps until it ends; a flush
\* without changed columns sends nothing.  flush_fails: the UPDATE raises,
\* the session rolls its transaction back and expires its objects.
ProcUpdate(r, det_raises, ext_raises, flush_fails) ==
    /\ req[r].pc = "analyse"
    /\ det_raises => detector_model /\ Decodable(req[r].image)
    /\ ext_raises => extractor_model /\ Decodable(req[r].image) /\ ~det_raises
    /\ Fails((IF det_raises THEN 1 ELSE 0) + (IF ext_raises THEN 1 ELSE 0)
             + (IF flush_fails THEN 1 ELSE 0))
    /\ LET q == req[r]
           detection_result == detect(detector_model, q.image)
           detected_objects == get_detections_dict(detection_result)
           embedding == extract(extractor_model, ext_raises, q.image)
           mem == [q.mem EXCEPT
                      !.detected_objects =
                          IF detected_objects # << >> THEN detected_objects
                          ELSE None,
                      !.ai_category = detection_result.primary_class,
                      !.ai_processed = TRUE,
                      !.embedding = AssignEmbedding(@, embedding)]
           ch == Changed(mem, q.base)
       IN  IF ~Decodable(q.image)
           THEN /\ ~flush_fails
                /\ SetReq(r, [q EXCEPT !.pc = "raised", !.err = "decode"])
                /\ UNCHANGED rowLock
           ELSE IF detector_model /\ det_raises
           THEN /\ ~flush_fails
                /\ SetReq(r, [q EXCEPT !.pc = "raised", !.err = "detect"])
                /\ UNCHANGED rowLock
           ELSE /\ ch # {} => rowLock[q.item] \in {0, r}
                /\ flush_fails => ch # {}
                /\ IF flush_fails
                   THEN /\ SetReq(r, [q EXCEPT !.pc = "raised", !.err = "flush",
                                         !.mem = mem, !.expired = TRUE])
                        /\ Unlock(r, q.item)
                   ELSE /\ SetReq(r, [q EXCEPT
                               !.pc = IF embedding # None THEN "candidates"
                                      ELSE "commit",
                               !.mem = mem, !.base = mem, !.wr = ch,
                               !.embedding = embedding])
                        /\ rowLock' = [rowLock EXCEPT
                                          ![q.item] = IF ch # {} THEN r ELSE @]
    /\ UNCHANGED <<dbItems, dbMatches, dbNotifications, uploads, nextItem,
                   nextRun, detector_model, extractor_model>>

\* MatchingService._create_match for each candidate of matches, in order:
\* the Match is added to the session and match_count incremented; no lookup
\* of an existing row precedes the insert
RECURSIVE create_matches(_, _)
create_matches(user_item_id, matches) ==
    IF matches = << >> THEN << >>
    ELSE <<NewMatch(user_item_id, Head(matches))>>
         \o create_matches(user_item_id, Tail(matches))

\* process_item, "5. Find similar items": candidate fetch, find_matches and
\* the _create_match loop (no await separates them once the rows are read).
\* fetch_fails: the candidate SELECT raises and the exception leaves
\* process_item.  tx_aborted: whether the database has aborted the open
\* transaction on that error (PostgreSQL) or kept it usable (SQLite); the
\* engine setup supports both.  skipped (history): the rows the steps that
\* the exception cut off would have added.
ProcMatch(r, fetch_fails, tx_aborted) ==
    /\ req[r].pc = "candidates"
    /\ DbCall(fetch_fails)
    /\ tx_aborted => fetch_fails
    /\ LET q == req[r]
           candidates == get_candidate_items(dbItems, Opposite(q.mem.type),
                                             q.mem.user_id, CandidateLimit)
           matches == IF candidates # << >>
                      THEN find_matches(q.embedding, item_to_dict(q.item, q.mem),
                                        candidates, Some(min_match_similarity),
                                        DefaultMaxResults)
                      ELSE << >>
       IN  IF fetch_fails
           THEN SetReq(r, [q EXCEPT !.pc = "raised", !.err = "candidates",
                              !.aborted = tx_aborted, !.fetched = TRUE,
                              !.during = {},
                              !.skipped = create_matches(q.item, matches)])
           ELSE SetReq(r, [q EXCEPT
                    !.pc = "commit", !.fetched = TRUE,
                    !.pend = create_matches(q.item, matches),
                    !.mem = [@ EXCEPT !.match_count = @ + Len(matches)],
                    !.matches_found = Len(matches)])
    /\ UNCHANGED <<dbItems, dbMatches, dbNotifications, uploads, rowLock,
                   nextItem, nextRun, detector_model, extractor_model>>

\* Session.commit(): flush what is pending (the UPDATE of the changed columns,
\* the INSERTs) and make the transaction's writes durable
CommitWrites(r) ==
    LET q == req[r]
        cols == q.wr \cup Changed(q.mem, q.base)
    IN  /\ dbItems' = IF cols # {}
                      THEN [dbItems EXCEPT
                               ![q.item] = ApplyUpdate(@, q.mem, cols)]
                      ELSE dbItems
        /\ dbMatches' = dbMatches (+) SeqToBag(q.pend)

\* history: a request inside process_item notes the (user_item, matched_item)
\* pairs that other transactions commit meanwhile
SeesCommit(o, rows) ==
    IF InProcess(o)
    THEN [req[o] EXCEPT !.during = @ \cup
             {<<rows[k].user_item_id, rows[k].matched_item_id>> :
                 k \in 1..Len(rows)}]
    ELSE req[o]

\* the row lock a commit needs before it can send its UPDATE
CanWrite(r) ==
    LET q == req[r]
    IN  q.wr \cup Changed(q.mem, q.base) # {} => rowLock[q.item] \in {0, r}

\* process_item: `await db.commit()` and the return of the ProcessingResult.
\* commit_fails: the commit raises; the session is rolled back.
ProcCommit(r, commit_fails) ==
    /\ req[r].pc = "commit"
    /\ CanWrite(r)
    /\ DbCall(commit_fails)
    /\ LET q == req[r]
       IN  /\ IF commit_fails
              THEN /\ SetReq(r, [q EXCEPT !.pc = "raised", !.err = "commit",
                                    !.expired = TRUE, !.wr = {},
                                    !.during = {},
                                    !.pend = << >>])
                   /\ UNCHANGED <<dbItems, dbMatches>>
              ELSE /\ CommitWrites(r)
                   /\ req' = [o \in Reqs |->
                                IF o = r
                                THEN [q EXCEPT !.pc = "returned", !.wr = {},
                                               !.pend = << >>, !.base = q.mem,
                                               !.during = {}]
                                ELSE SeesCommit(o, q.pend)]
           /\ Unlock(r, q.item)
    /\ UNCHANGED <<dbNotifications, uploads, nextItem, nextRun,
                   detector_model, extractor_model>>

\* the response of create_lost_item / create_found_item for the request q:
\* 201 with ai_error set iff the in-memory item is not ai_processed, or 500
\* when reading the expired item raises out of the handler
SubmitResponse(q, matches_table) ==
    IF q.expired
    THEN [status |-> 500, ai_error |-> FALSE, match_count |-> 0]
    ELSE [status |-> 201, ai_error |-> ~q.mem.ai_processed,
          match_count |-> IF q.pc = "returned" /\ q.matches_found > 0
                          THEN UserItemRows(matches_table, q.item) ELSE 0]

\* create_lost_item / create_found_item after process_item returned or
\* raised (the except branch logs and continues), the response, and get_db
\* after the handler: commit when it returned, rollback when it raised.  A
\* transaction the database has aborted commits nothing.
SubmitFinish(r) ==
    /\ req[r].kind = "submit"
    /\ req[r].pc \in {"returned", "raised"}
    /\ CanWrite(r)
    /\ LET q == req[r]
       IN  /\ IF SubmitResponse(q, dbMatches).status = 500 \/ q.aborted
              THEN UNCHANGED <<dbItems, dbMatches>>
              ELSE CommitWrites(r)
           /\ SetReq(r, IdleReq)
           /\ Unlock(r, q.item)
    /\ UNCHANGED <<dbNotifications, uploads, nextItem, nextRun, faults,
                   detector_model, extractor_model>>

\* the response of reprocess_item: the message, or HTTPException 500
ReprocessResponse(q) ==
    [status |-> IF q.pc = "returned" THEN 200 ELSE 500,
     matches_found |-> q.matches_found]

\* reprocess_item after process_item returned or raised, and get_db after
\* the handler (rollback on the HTTPException)
ReprocessFinish(r) ==
    /\ req[r].kind = "reprocess"
    /\ req[r].pc \in {"returned", "raised"}
    /\ SetReq(r, IdleReq)
    /\ Unlock(r, req[r].item)
    /\ UNCHANGED <<dbItems, dbMatches, dbNotifications, uploads, nextItem,
                   nextRun, faults, detector_model, extractor_model>>

\* "Create match records" without the lookup of the existing row
task_create_matches_unchecked(matches_table, source_id, matches) ==
    [k \in 1..Len(matches) |-> NewMatch(source_id, matches[k])]

\* _find_matches_async, "Create match records": a Match and a notification
\* for each candidate without a row for exactly (source item, candidate)
RECURSIVE task_create_matches(_, _, _)
task_create_matches(matches_table, source_id, matches) ==
    IF matches = << >> THEN << >>
    ELSE LET rest == task_create_matches(matches_table, source_id,
                                         Tail(matches))
         IN  IF PairRows(matches_table, source_id, Head(matches).item_id) > 0
             THEN rest
             ELSE <<NewMatch(source_id, Head(matches))>> \o rest

\* `existing.scalar_one_or_none()` raises MultipleResultsFound when a lookup
\* finds more than one row for its pair
lookup_raises(matches_table, source_id, matches) ==
    \E k \in 1..Len(matches) :
       PairRows(matches_table, source_id, matches[k].item_id) > 1

\* Notification(...) of the matching task, one per new match
NewNotification(user_id, match) ==
    [user_id |-> user_id, type |-> "match", item_id |-> match.user_item_id,
     matched_item_id |-> match.matched_item_id]

\* find_matches_for_item / _find_matches_async up to the candidate query:
\* load the source item; return early if it is missing or unprocessed
find_matches_for_item(r, item_id) ==
    /\ CanStart(r)
    /\ nextRun <= MaxRuns
    /\ IF \/ item_id \notin DOMAIN dbItems
          \/ ~dbItems[item_id].ai_processed
          \/ dbItems[item_id].embedding = None
          \/ dbItems[item_id].embedding[1] = << >>
       THEN UNCHANGED <<nextRun, req>>
       ELSE /\ SetReq(r, [IdleReq EXCEPT
                             !.kind = "task", !.pc = "task_match",
                             !.item = item_id, !.image = uploads[item_id],
                             !.mem = dbItems[item_id],
                             !.base = dbItems[item_id],
                             !.embedding = dbItems[item_id].embedding])
            /\ nextRun' = nextRun + 1
    /\ UNCHANGED <<dbItems, dbMatches, dbNotifications, uploads, rowLock,
                   nextItem, faults, detector_model, extractor_model>>

\* _find_matches_async: candidate query, find_matches, and the loop that
\* looks each pair up and adds the missing matches with their notifications.
\* The run ends without a write when there is no candidate, and also when a
\* lookup finds more than one row for its pair: scalar_one_or_none raises
\* and get_db_context rolls back.
TaskMatch(r) ==
    /\ req[r].pc = "task_match"
    /\ LET q == req[r]
           candidates == get_candidate_items(dbItems, Opposite(q.mem.type),
                                             q.mem.user_id, CandidateLimit)
           matches == find_matches(q.embedding, item_to_dict(q.item, q.mem),
                                   candidates, Some(min_match_similarity),
                                   DefaultMaxResults)
           created == task_create_matches(dbMatches, q.item, matches)
       IN  IF candidates = << >> \/ lookup_raises(dbMatches, q.item, matches)
           THEN SetReq(r, IdleReq)
           ELSE SetReq(r, [q EXCEPT !.pc = "task_commit", !.fetched = TRUE,
                              !.pend = created,
                              !.matches_found = Len(created)])
    /\ UNCHANGED <<dbItems, dbMatches, dbNotifications, uploads, rowLock,
                   nextItem, nextRun, faults, detector_model, extractor_model>>

\* _find_matches_async: `source_item.match_count += matches_created`,
\* `await db.commit()` and the return.  commit_fails: the commit raises and
\* get_db_context rolls back.
TaskCommit(r, commit_fails) ==
    /\ req[r].pc = "task_commit"
    /\ DbCall(commit_fails)
    /\ LET q == req[r]
           mem == [q.mem EXCEPT !.match_count = @ + q.matches_found]
           cols == Changed(mem, q.base)
       IN  /\ cols # {} => rowLock[q.item] = 0
           /\ IF commit_fails
              THEN /\ SetReq(r, IdleReq)
                   /\ UNCHANGED <<dbItems, dbMatches, dbNotifications>>
              ELSE /\ dbItems' = IF cols # {}
                                 THEN [dbItems EXCEPT ![q.item] =
                                          ApplyUpdate(@, mem, cols)]
                                 ELSE dbItems
                   /\ dbMatches' = dbMatches (+) SeqToBag(q.pend)
                   /\ dbNotifications' = dbNotifications (+)
                        SeqToBag([k \in 1..Len(q.pend) |->
                                    NewNotification(q.mem.user_id, q.pend[k])])
                   /\ req' = [o \in Reqs |->
                                IF o = r THEN IdleReq
                                ELSE SeesCommit(o, q.pend)]
    /\ UNCHANGED <<uploads, rowLock, nextItem, nextRun, detector_model,
                   extractor_model>>

Next ==
    \/ \E r \in Reqs, s \in LostSubmissions, commit_fails \in BOOLEAN :
          create_lost_item(r, s.user, s.image, s.meta, commit_fails)
          /\ UNCHANGED <<matcher_call, legacy, service_call>>
    \/ \E r \in Reqs, s \in FoundSubmissions, commit_fails \in BOOLEAN :
          create_found_item(r, s.user, s.image, s.meta, commit_fails)
          /\ UNCHANGED <<matcher_call, legacy, service_call>>
    \/ \E r \in Reqs, item_id \in ItemIds, user \in Users :
          reprocess_item(r, item_id, user)
          /\ UNCHANGED <<matcher_call, legacy, service_call>>
    \/ \E r \in Reqs, det_raises \in BOOLEAN, ext_raises \in BOOLEAN,
          flush_fails \in BOOLEAN :
          ProcUpdate(r, det_raises, ext_raises, flush_fails)
          /\ UNCHANGED <<matcher_call, legacy, service_call>>
    \/ \E r \in Reqs, fetch_fails \in BOOLEAN, tx_aborted \in BOOLEAN :
          ProcMatch(r, fetch_fails, tx_aborted)
          /\ UNCHANGED <<matcher_call, legacy, service_call>>
    \/ \E r \in Reqs, commit_fails \in BOOLEAN : ProcCommit(r, commit_fails)
          /\ UNCHANGED <<matcher_call, legacy, service_call>>
    \/ \E r \in Reqs : SubmitFinish(r)
          /\ UNCHANGED <<matcher_call, legacy, service_call>>
    \/ \E r \in Reqs : ReprocessFinish(r)
          /\ UNCHANGED <<matcher_call, legacy, service_call>>
    \/ \E r \in Reqs, item_id \in ItemIds : find_matches_for_item(r, item_id)
          /\ UNCHANGED <<matcher_call, legacy, service_call>>
    \/ \E r \in Reqs : TaskMatch(r)
          /\ UNCHANGED <<matcher_call, legacy, service_call>>
    \/ \E r \in Reqs, commit_fails \in BOOLEAN : TaskCommit(r, commit_fails)
          /\ UNCHANGED <<matcher_call, legacy, service_call>>

Spec == Init /\ [][Next]_vars

(***************************************************************************)
(* Item status and match confirmation                                      *)
(***************************************************************************)
\* rows of the notifications table up to which matches are answered
MaxNotifications == 4

\* the values of ItemStatus an owner's update draws from
ItemStatuses == {"open", "matched"}

\* the row of an item after a process_item run that committed, with the
\* models loaded or not
ProcessedRow(row, image, model_loaded) ==
    LET detection_result == detect(model_loaded, image)
        detected_objects == get_detections_dict(detection_result)
        embedding == extract(model_loaded, FALSE, image)
    IN  [row EXCEPT
            !.detected_objects = IF detected_objects # << >>
                                 THEN detected_objects ELSE None,
            !.ai_category = detection_result.primary_class,
            !.ai_processed = TRUE,
            !.embedding = IF embedding # None THEN embedding ELSE @]

\* the lost item every stored table starts with
SourceItem ==
    [image |-> "imgA",
     row |-> ProcessedRow(NewItem("lost", "u1", PhoneForm), "imgA", TRUE)]

\* the other items a stored table draws from: a found item of another owner
\* with the same image; one with an image of low visual similarity; one of
\* the same owner; a lost item; an unprocessed one; one processed while the
\* models were unavailable (no embedding)
StoredItems ==
    { [image |-> "imgA",
       row |-> ProcessedRow(NewItem("found", "u2", WalletForm), "imgA", TRUE)],
      [image |-> "imgC",
       row |-> ProcessedRow(NewItem("found", "u2", WalletForm), "imgC", TRUE)],
      [image |-> "imgA",
       row |-> ProcessedRow(NewItem("found", "u1", WalletForm), "imgA", TRUE)],
      [image |-> "imgA",
       row |-> ProcessedRow(NewItem("lost", "u2", PhoneForm), "imgA", TRUE)],
      [image |-> "imgA", row |-> NewItem("found", "u2", WalletForm)],
      [image |-> "imgA",
       row |-> ProcessedRow(NewItem("found", "u2", WalletForm), "imgA",
                            FALSE)] }

\* a database that earlier submissions have filled: MaxItems items, their
\* image files, no match yet; one more pipeline run can start
InitStatus ==
    /\ \E stored \in [ItemIds \ {1} -> StoredItems] :
          LET table == [i \in ItemIds |->
                           IF i = 1 THEN SourceItem ELSE stored[i]]
          IN  /\ dbItems = [i \in ItemIds |-> table[i].row]
              /\ uploads = [i \in ItemIds |-> table[i].image]
    /\ dbMatches = EmptyBag
    /\ dbNotifications = EmptyBag
    /\ rowLock = [i \in ItemIds |-> 0]
    /\ nextItem = MaxItems + 1
    /\ nextRun = MaxRuns
    /\ faults = 0
    /\ detector_model = TRUE
    /\ extractor_model = TRUE
    /\ req = [r \in Reqs |-> IdleReq]
    /\ matcher_call = NoCall
    /\ legacy = NoLegacy
    /\ service_call = NoServiceCall

\* update_item with a body that sets `status`: the owner's item gets every
\* field of the body by setattr, then the commit.  404 and 403 end the
\* request before any write; the UPDATE waits for the row's write lock.
update_item(item_id, user, status) ==
    /\ item_id \in DOMAIN dbItems
    /\ dbItems[item_id].user_id = user
    /\ dbItems[item_id].status # status
    /\ rowLock[item_id] = 0
    /\ dbItems' = [dbItems EXCEPT ![item_id].status = status]
    /\ UNCHANGED <<dbMatches, dbNotifications, uploads, rowLock, nextItem,
                   nextRun, faults, detector_model, extractor_model, req>>

\* Match.is_rejected: an owner has answered no
is_rejected(match) ==
    \/ match.user_item_owner_confirmed = Some(FALSE)
    \/ match.matched_item_owner_confirmed = Some(FALSE)

\* Match.is_confirmed_by_both: both owners have answered yes
is_confirmed_by_both(match) ==
    /\ match.user_item_owner_confirmed = Some(TRUE)
    /\ match.matched_item_owner_confirmed = Some(TRUE)

\* Notification(...) of _create_confirmation_notification and
\* _create_claim_notification: who is told, about which of the match's items
ConfirmNotification(type, user_id, item_id, match) ==
    [user_id |-> user_id, type |-> type, item_id |-> item_id,
     matched_item_id |-> IF item_id = match.user_item_id
                         THEN match.matched_item_id
                         ELSE match.user_item_id]

\* confirm_match: the caller's answer is stored on the match (as owner of
\* user_item when they own both) and replaces an earlier answer of theirs,
\* the match's status follows the two answers, and when both have confirmed
\* both items become MATCHED; then the commit.  403 for a caller who owns
\* neither item.  No status of the match or of its items refuses an answer.
confirm_match(match, user, confirmed) ==
    /\ match \in BagToSet(dbMatches)
    /\ LET user_item == dbItems[match.user_item_id]
           matched_item == dbItems[match.matched_item_id]
           viewer_is_user_item_owner == user_item.user_id = user
           viewer_is_matched_item_owner == matched_item.user_id = user
           answered ==
               IF viewer_is_user_item_owner
               THEN [match EXCEPT !.user_item_owner_confirmed = Some(confirmed)]
               ELSE [match EXCEPT
                        !.matched_item_owner_confirmed = Some(confirmed)]
           updated ==
               [answered EXCEPT !.status =
                   IF is_rejected(answered) THEN "rejected"
                   ELSE IF is_confirmed_by_both(answered) THEN "claimed"
                   ELSE IF confirmed THEN "contacted" ELSE @]
           claimed == ~is_rejected(answered) /\ is_confirmed_by_both(answered)
           other == IF viewer_is_user_item_owner THEN match.matched_item_id
                    ELSE match.user_item_id
       IN  /\ viewer_is_user_item_owner \/ viewer_is_matched_item_owner
           /\ dbMatches' = (dbMatches (-) SetToBag({match}))
                               (+) SetToBag({updated})
           /\ IF claimed
              THEN /\ rowLock[match.user_item_id] = 0
                   /\ rowLock[match.matched_item_id] = 0
                   /\ dbItems' = [i \in DOMAIN dbItems |->
                         IF i \in {match.user_item_id, match.matched_item_id}
                         THEN [dbItems[i] EXCEPT !.status = "matched"]
                         ELSE dbItems[i]]
                   /\ dbNotifications' = dbNotifications
                         (+) SetToBag({ConfirmNotification("claim",
                                 user_item.user_id, match.user_item_id, match)})
                         (+) SetToBag({ConfirmNotification("claim",
                                 matched_item.user_id, match.matched_item_id,
                                 match)})
              ELSE /\ UNCHANGED dbItems
                   /\ dbNotifications' =
                         IF ~is_rejected(answered) /\ confirmed
                         THEN dbNotifications (+) SetToBag({
                                 ConfirmNotification("match",
                                     dbItems[other].user_id, other, match)})
                         ELSE dbNotifications
    /\ BagCardinality(dbNotifications') <= MaxNotifications
    /\ UNCHANGED <<uploads, rowLock, nextItem, nextRun, faults,
                   detector_model, extractor_model, req>>

\* the operations on stored items: reprocess, the matching task, the owner's
\* update and the confirmation of matches
NextStatus ==
    \/ \E r \in Reqs, item_id \in ItemIds, user \in Users :
          reprocess_item(r, item_id, user)
          /\ UNCHANGED <<matcher_call, legacy, service_call>>
    \/ \E r \in Reqs, det_raises \in BOOLEAN, ext_raises \in BOOLEAN,
          flush_fails \in BOOLEAN :
          ProcUpdate(r, det_raises, ext_raises, flush_fails)
          /\ UNCHANGED <<matcher_call, legacy, service_call>>
    \/ \E r \in Reqs, fetch_fails \in BOOLEAN, tx_aborted \in BOOLEAN :
          ProcMatch(r, fetch_fails, tx_aborted)
          /\ UNCHANGED <<matcher_call, legacy, service_call>>
    \/ \E r \in Reqs, commit_fails \in BOOLEAN : ProcCommit(r, commit_fails)
          /\ UNCHANGED <<matcher_call, legacy, service_call>>
    \/ \E r \in Reqs : ReprocessFinish(r)
          /\ UNCHANGED <<matcher_call, legacy, service_call>>
    \/ \E r \in Reqs, item_id \in ItemIds : find_matches_for_item(r, item_id)
          /\ UNCHANGED <<matcher_call, legacy, service_call>>
    \/ \E r \in Reqs : TaskMatch(r)
          /\ UNCHANGED <<matcher_call, legacy, service_call>>
    \/ \E r \in Reqs, commit_fails \in BOOLEAN : TaskCommit(r, commit_fails)
          /\ UNCHANGED <<matcher_call, legacy, service_call>>
    \/ \E item_id \in ItemIds, user \in Users, status \in ItemStatuses :
          update_item(item_id, user, status)
          /\ UNCHANGED <<matcher_call, legacy, service_call>>
    \/ \E match \in BagToSet(dbMatches), user \in Users,
          confirmed \in BOOLEAN :
          confirm_match(match, user, confirmed)
          /\ UNCHANGED <<matcher_call, legacy, service_call>>

SpecStatus == InitStatus /\ [][NextStatus]_vars

(***************************************************************************)
(* Repeated runs of the matching task                                      *)
(***************************************************************************)
\* the stored database of InitStatus before any run of the matching task:
\* Celery workers then run find_matches_for_item, first runs, retries and
\* the runs queued by recalculate_all_matches alike, MaxRuns times in all
InitTask ==
    /\ \E stored \in [ItemIds \ {1} -> StoredItems] :
          LET table == [i \in ItemIds |->
                           IF i = 1 THEN SourceItem ELSE stored[i]]
          IN  /\ dbItems = [i \in ItemIds |-> table[i].row]
              /\ uploads = [i \in ItemIds |-> table[i].image]
    /\ dbMatches = EmptyBag
    /\ dbNotifications = EmptyBag
    /\ rowLock = [i \in ItemIds |-> 0]
    /\ nextItem = MaxItems + 1
    /\ nextRun = 1
    /\ faults = 0
    /\ detector_model = TRUE
    /\ extractor_model = TRUE
    /\ req = [r \in Reqs |-> IdleReq]
    /\ matcher_call = NoCall
    /\ legacy = NoLegacy
    /\ service_call = NoServiceCall

\* the steps of the workers that run the matching task
NextTask ==
    \/ \E r \in Reqs, item_id \in ItemIds : find_matches_for_item(r, item_id)
          /\ UNCHANGED <<matcher_call, legacy, service_call>>
    \/ \E r \in Reqs : TaskMatch(r)
          /\ UNCHANGED <<matcher_call, legacy, service_call>>
    \/ \E r \in Reqs, commit_fails \in BOOLEAN : TaskCommit(r, commit_fails)
          /\ UNCHANGED <<matcher_call, legacy, service_call>>

SpecTask == InitTask /\ [][NextTask]_vars

(***************************************************************************)
(* Direct calls of the SimilarityMatcher                                   *)
(***************************************************************************)
\* longest candidate list of a direct find_matches call
MaxCandidates == 3

\* the form of a found phone that agrees with PhoneForm in every field
PhoneFoundForm ==
    [category |-> "phone", brand |-> None, color |-> Some("black"),
     location |-> "mall", latitude |-> None, longitude |-> None,
     date_time |-> Some(600)]

\* the source of the direct calls: item 1, a lost phone
MatcherSource ==
    [embedding |-> Some(<<600, 800>>),
     metadata |-> item_to_dict(1, NewItem("lost", "u1", PhoneForm))]

\* a candidate as find_matches takes it: (embedding, metadata)
Candidate(id, vector, meta) ==
    [embedding |-> Some(vector),
     metadata |-> item_to_dict(id, NewItem("found", "u2", meta))]

\* the candidates the direct calls draw from.  Against the source their dot
\* products are 1.0, 1.0, 0.28, 0.28, 0.099, 0.1, -0.352 and 0.936.
CandidatePool ==
    { Candidate(2, <<600, 800>>, PhoneFoundForm),
      Candidate(3, <<600, 800>>, PhoneFoundForm),
      Candidate(4, <<-600, 800>>, PhoneFoundForm),
      Candidate(5, <<-600, 800>>, WalletForm),
      Candidate(6, <<0, 124>>, PhoneFoundForm),
      Candidate(7, <<0, 125>>, WalletForm),
      Candidate(8, <<-960, 280>>, PhoneFoundForm),
      Candidate(9, <<280, 960>>, WalletForm) }

\* candidate lists as a SELECT returns them: no item twice
CandidateLists ==
    {sq \in UNION {[1..n -> CandidatePool] : n \in 0..MaxCandidates} :
        \A i, j \in DOMAIN sq : i # j => sq[i] # sq[j]}

\* the min_score and max_results arguments the direct calls draw from
MinScores == {None, Some(0), Some(MIN_FINAL_SCORE), Some(min_match_similarity)}
MaxResultsArgs == {1, 2, DefaultMaxResults}

\* visual similarities, in thousandths
Visuals == 0..1000

\* the arguments of a direct call are chosen
InitMatcher ==
    /\ dbItems = << >>
    /\ dbMatches = EmptyBag
    /\ dbNotifications = EmptyBag
    /\ uploads = << >>
    /\ rowLock = [i \in ItemIds |-> 0]
    /\ nextItem = 1
    /\ nextRun = 1
    /\ faults = 0
    /\ detector_model = TRUE
    /\ extractor_model = TRUE
    /\ req = [r \in Reqs |-> IdleReq]
    /\ legacy = NoLegacy
    /\ service_call = NoServiceCall
    /\ \/ \E candidates \in CandidateLists, min_score \in MinScores,
             max_results \in MaxResultsArgs :
             matcher_call = [NoCall EXCEPT
                 !.kind = "find_matches",
                 !.source_embedding = MatcherSource.embedding,
                 !.source_item = MatcherSource.metadata,
                 !.candidates = candidates,
                 !.min_score = min_score,
                 !.max_results = max_results]
       \/ \E v \in Visuals, form \in {PhoneFoundForm, WalletForm} :
             matcher_call = [NoCall EXCEPT
                 !.kind = "calculate_match_score",
                 !.visual_similarity = v,
                 !.source_item = MatcherSource.metadata,
                 !.target_item = Candidate(2, <<600, 800>>, form).metadata]

\* matcher.find_matches(source_embedding, source_item, candidates, min_score,
\* max_results) returns
CallFindMatches ==
    /\ matcher_call.kind = "find_matches"
    /\ ~matcher_call.done
    /\ matcher_call' = [matcher_call EXCEPT
          !.done = TRUE,
          !.matches = find_matches(matcher_call.source_embedding,
                                   matcher_call.source_item,
                                   matcher_call.candidates,
                                   matcher_call.min_score,
                                   matcher_call.max_results)]
    /\ UNCHANGED <<api, legacy, service_call>>

\* matcher.calculate_match_score(visual_similarity, source_item, target_item)
\* returns
CallCalculateMatchScore ==
    /\ matcher_call.kind = "calculate_match_score"
    /\ ~matcher_call.done
    /\ matcher_call' = [matcher_call EXCEPT
          !.done = TRUE,
          !.score = calculate_match_score(matcher_call.visual_similarity,
                                          matcher_call.source_item,
                                          matcher_call.target_item)]
    /\ UNCHANGED <<api, legacy, service_call>>

NextMatcher ==
    \/ CallFindMatches
    \/ CallCalculateMatchScore

SpecMatcher == InitMatcher /\ [][NextMatcher]_vars

\* the candidates of the finished find_matches call with the given id
CalledCandidates(id) ==
    {matcher_call.candidates[k] : k \in
        {i \in DOMAIN matcher_call.candidates :
            matcher_call.candidates[i].metadata.id = id}}

\* a find_matches call has returned
Returned == matcher_call.kind = "find_matches" /\ matcher_call.done

\* the threshold `min_score or MIN_FINAL_SCORE` of the call
CallThreshold ==
    IF matcher_call.min_score = None \/ matcher_call.min_score[1] = 0
    THEN MIN_FINAL_SCORE ELSE matcher_call.min_score[1]

\* the score of candidate c of the call
CallScore(c) ==
    calculate_match_score(similarity(matcher_call.source_embedding, c.embedding),
                          matcher_call.source_item, c.metadata)

\* the candidates of the call that pass both filters of find_matches
Passing ==
    {matcher_call.candidates[k] : k \in
        {i \in DOMAIN matcher_call.candidates :
            LET c == matcher_call.candidates[i]
            IN  /\ similarity(matcher_call.source_embedding, c.embedding)
                      >= MIN_VISUAL_SIMILARITY
                /\ CallScore(c).final_score >= CallThreshold}}

(***************************************************************************)
(* Direct calls of calculate_match_score over the metadata of the items    *)
(***************************************************************************)
\* category, colour and brand of the source and of the target
SourceAttrs ==
    { [category |-> "phone", color |-> Some("Black"), brand |-> Some("apple")],
      [category |-> "phone", color |-> None, brand |-> None] }

TargetAttrs ==
    { [category |-> "phone", color |-> Some("black"), brand |-> Some("apple")],
      [category |-> "wallet", color |-> Some("brown"),
       brand |-> Some("samsung")],
      [category |-> "wallet", color |-> None, brand |-> None] }

\* a place: a location name and optional coordinates, in thousandths of a
\* degree
Place(location, latitude, longitude) ==
    [location |-> location, latitude |-> latitude, longitude |-> longitude]

\* the places of the source: with and without coordinates (25 N, 55 E), with
\* a latitude only, without a name
SourcePlaces ==
    { Place("Dubai Mall", None, None),
      Place("Dubai Mall", Some(25000), Some(55000)),
      Place("Dubai Mall", Some(25000), None),
      Place("", None, None) }

\* the places of the target: on the meridian of the source at offsets in
\* latitude (0.001 degree is 111.194 m) that give the distances 0, 0.89,
\* 1.0007, 1.1, 50, 69.9, 70.05, 99.96, 100.07 and 222 km (and 1.0007 km to
\* the south); without coordinates under four names; with a longitude only
TargetPlaces ==
    { Place("mall", Some(25000 + k), Some(55000)) :
         k \in {0, 8, 9, 10, 450, 629, 630, 899, 900, 2000, -9} }
    \cup { Place(name, None, None) :
              name \in {"dubai mall", "mall", "marina", ""} }
    \cup { Place("dubai mall", None, Some(55000)) }

\* the date_time of the source, and that of the target at differences, in
\* minutes, of up to 24 hours, up to 42 days (decay), up to 60 days (floor of
\* the decay) and beyond, before and after the source's
SourceTimes == {None, Some(100000), Some(Malformed)}

TargetTimes ==
    {None, Some(Malformed)}
    \cup { Some(100000 + k) :
              k \in {0, 1440, 1441, -1441, 50000, 60480, 60481, 86400, 86401,
                     -86401, 200000} }

\* the form of an item with the given attributes, place and date_time
ComponentForm(attrs, place, date_time) ==
    [category |-> attrs.category, brand |-> attrs.brand,
     color |-> attrs.color, location |-> place.location,
     latitude |-> place.latitude, longitude |-> place.longitude,
     date_time |-> date_time]

\* the arguments of a calculate_match_score call are chosen
InitComponents ==
    /\ dbItems = << >>
    /\ dbMatches = EmptyBag
    /\ dbNotifications = EmptyBag
    /\ uploads = << >>
    /\ rowLock = [i \in ItemIds |-> 0]
    /\ nextItem = 1
    /\ nextRun = 1
    /\ faults = 0
    /\ detector_model = TRUE
    /\ extractor_model = TRUE
    /\ req = [r \in Reqs |-> IdleReq]
    /\ legacy = NoLegacy
    /\ service_call = NoServiceCall
    /\ \E v \in {0, 500, 1000}, sa \in SourceAttrs, ta \in TargetAttrs,
          sp \in SourcePlaces, tp \in TargetPlaces,
          st \in SourceTimes, tt \in TargetTimes :
          matcher_call = [NoCall EXCEPT
              !.kind = "calculate_match_score",
              !.visual_similarity = v,
              !.source_item =
                  item_to_dict(1, NewItem("lost", "u1",
                                          ComponentForm(sa, sp, st))),
              !.target_item =
                  item_to_dict(2, NewItem("found", "u2",
                                          ComponentForm(ta, tp, tt)))]

NextComponents ==
    \/ CallCalculateMatchScore

SpecComponents == InitComponents /\ [][NextComponents]_vars

(***************************************************************************)
(* Legacy endpoints POST /api/lost and POST /api/found                     *)
(***************************************************************************)
\* reports (finished or in flight) the legacy endpoints take
MaxReports == 7
\* constants.TOP_K_MATCHES
TOP_K_MATCHES == 5

\* the reports the model draws from: lost items with the image imgA, found
\* items with imgA or imgC
LegacyReports ==
    { [type |-> "lost", image |-> "imgA"],
      [type |-> "found", image |-> "imgA"],
      [type |-> "found", image |-> "imgC"] }

\* embeddings.get_image_embedding: the flattened features of the CNN, not
\* normalised
get_image_embedding(image) ==
    CASE image = "imgA" -> <<6, 8>>
      [] image = "imgC" -> <<0, 5>>
      [] OTHER -> <<5, 0>>

\* embeddings.cosine_similarity, in thousandths: None for the ValueError on
\* vectors of different lengths, 0 for a zero vector, else the cosine
\* clamped into [0, 1]
cosine_similarity(vec_a, vec_b) ==
    LET Isqrt(n) == CHOOSE x \in 0..n : x * x <= n /\ (x + 1) * (x + 1) > n
        dot_product == DotSum(vec_a, vec_b)
        magnitude_a == Isqrt(DotSum(vec_a, vec_a))
        magnitude_b == Isqrt(DotSum(vec_b, vec_b))
    IN  IF Len(vec_a) # Len(vec_b) THEN None
        ELSE IF magnitude_a = 0 \/ magnitude_b = 0 THEN Some(0)
        ELSE Some(Max(0, Min(1000, (dot_product * 1000)
                                      \div (magnitude_a * magnitude_b))))

\* the similarities left in the order of the candidates
SortBySimilarity_unsorted(sims) == sims

\* list.sort(key=similarity, reverse=True), stable: the first of the greatest
\* elements, then the rest sorted
RECURSIVE SortBySimilarity(_)
SortBySimilarity(sims) ==
    IF sims = << >> THEN << >>
    ELSE LET k == CHOOSE i \in DOMAIN sims :
                    /\ \A j \in DOMAIN sims :
                          sims[j].similarity <= sims[i].similarity
                    /\ \A j \in 1..(i - 1) :
                          sims[j].similarity < sims[i].similarity
         IN  <<sims[k]>> \o SortBySimilarity(
                 SubSeq(sims, 1, k - 1) \o SubSeq(sims, k + 1, Len(sims)))

\* embeddings.find_top_matches
find_top_matches(query_embedding, candidates, top_k) ==
    LET scored == [k \in DOMAIN candidates |->
                      [item_id |-> candidates[k].item_id,
                       sim |-> cosine_similarity(query_embedding,
                                                 candidates[k].embedding)]]
        kept == SelectSeq(scored, LAMBDA c : c.sim # None)
        similarities == [k \in DOMAIN kept |->
                            [item_id |-> kept[k].item_id,
                             similarity |-> kept[k].sim[1]]]
        sorted == SortBySimilarity(similarities)
    IN  SubSeq(sorted, 1, Min(Len(sorted), top_k))

\* crud.get_items_with_embeddings: the items of the type, newest first
\* (ORDER BY created_at DESC), as (item_id, embedding) pairs
RECURSIVE get_items_with_embeddings(_, _)
get_items_with_embeddings(items, item_type) ==
    IF items = << >> THEN << >>
    ELSE LET n == Len(items)
             rest == get_items_with_embeddings(SubSeq(items, 1, n - 1),
                                               item_type)
         IN  IF items[n].type = item_type
             THEN <<[item_id |-> n, embedding |-> items[n].embedding]>> \o rest
             ELSE rest

\* routers.items.compute_matches
compute_matches(items, query_embedding, target_type) ==
    LET candidates == get_items_with_embeddings(items, target_type)
    IN  IF candidates = << >> THEN << >>
        ELSE find_top_matches(query_embedding, candidates, TOP_K_MATCHES)

InitLegacy ==
    /\ dbItems = << >>
    /\ dbMatches = EmptyBag
    /\ dbNotifications = EmptyBag
    /\ uploads = << >>
    /\ rowLock = [i \in ItemIds |-> 0]
    /\ nextItem = 1
    /\ nextRun = 1
    /\ faults = 0
    /\ detector_model = TRUE
    /\ extractor_model = TRUE
    /\ req = [r \in Reqs |-> IdleReq]
    /\ matcher_call = NoCall
    /\ legacy = NoLegacy
    /\ service_call = NoServiceCall

\* report_lost_item / report_found_item up to
\* `await get_image_embedding_async(full_path)`: the image is validated,
\* analysed and saved, and the embedding computation handed to the executor
\* (two workers); the coroutine waits and the event loop serves other
\* requests
ReportItem(type, image) ==
    /\ Len(legacy.items) + Len(legacy.pending) < MaxReports
    /\ Len(legacy.pending) < Cardinality(Reqs)
    /\ legacy' = [legacy EXCEPT
          !.pending = Append(@, [type |-> type, image |-> image])]
    /\ UNCHANGED <<api, matcher_call, service_call>>

report_lost_item(image) == ReportItem("lost", image)

report_found_item(image) == ReportItem("found", image)

\* the rest of report_lost_item / report_found_item for the k-th waiting
\* report, once its embedding is computed: crud.create_item (commit),
\* compute_matches against the opposite type and the response.  These run
\* without an await in between.
ReportFinish(k) ==
    /\ k \in DOMAIN legacy.pending
    /\ LET p == legacy.pending[k]
           embedding == get_image_embedding(p.image)
           db_item == [type |-> p.type, image |-> p.image,
                       embedding |-> embedding]
           items == Append(legacy.items, db_item)
           matches == compute_matches(items, embedding, Opposite(p.type))
       IN  legacy' = [items |-> items,
                      pending |-> SubSeq(legacy.pending, 1, k - 1)
                                  \o SubSeq(legacy.pending, k + 1,
                                            Len(legacy.pending)),
                      last |-> Some([item_id |-> Len(items),
                                     matches |-> matches])]
    /\ UNCHANGED <<api, matcher_call, service_call>>

NextLegacy ==
    \/ \E s \in {x \in LegacyReports : x.type = "lost"} :
          report_lost_item(s.image)
    \/ \E s \in {x \in LegacyReports : x.type = "found"} :
          report_found_item(s.image)
    \/ \E k \in 1..Cardinality(Reqs) : ReportFinish(k)

SpecLegacy == InitLegacy /\ [][NextLegacy]_vars

(***************************************************************************)
(* Direct calls of the object detector and the image processor             *)
(***************************************************************************)
\* most boxes a forward pass of the detector returns
MaxBoxes == 3

\* the boxes a forward pass draws from: <<class name, confidence>>, with
\* classes inside and outside CLASS_MAPPING and confidences above the
\* confidence_threshold of detect (0.25)
Boxes == {"person", "dog", "cell phone", "backpack"} \X {300, 600, 900}

BoxLists == UNION {[1..n -> Boxes] : n \in 0..MaxBoxes}

\* the images an upload can hold: Pillow modes, EXIF orientations (upright,
\* upside down, on its side) and sizes below, at and above MAX_DIMENSION
UploadedImages ==
    [mode : {"RGB", "RGBA", "P", "L", "CMYK"},
     orientation : {1, 3, 6, 8},
     width : {640, MAX_DIMENSION, 4000},
     height : {480, MAX_DIMENSION, 3000}]

\* the arguments of a direct call are chosen
InitServices ==
    /\ dbItems = << >>
    /\ dbMatches = EmptyBag
    /\ dbNotifications = EmptyBag
    /\ uploads = << >>
    /\ rowLock = [i \in ItemIds |-> 0]
    /\ nextItem = 1
    /\ nextRun = 1
    /\ faults = 0
    /\ detector_model = TRUE
    /\ extractor_model = TRUE
    /\ req = [r \in Reqs |-> IdleReq]
    /\ matcher_call = NoCall
    /\ legacy = NoLegacy
    /\ \/ \E model_loaded \in BOOLEAN, boxes \in BoxLists :
             service_call = [NoServiceCall EXCEPT
                 !.kind = "detect",
                 !.model_loaded = model_loaded,
                 !.results = boxes]
       \/ \E image_data \in UploadedImages :
             service_call = [NoServiceCall EXCEPT
                 !.kind = "image_to_numpy",
                 !.image_data = image_data]

\* object_detector.detect(image) returns, the forward pass having given the
\* boxes of the call
CallDetect ==
    /\ service_call.kind = "detect"
    /\ ~service_call.done
    /\ service_call' = [service_call EXCEPT
          !.done = TRUE,
          !.result = detect_boxes(service_call.model_loaded,
                                  service_call.results)]
    /\ UNCHANGED <<api, matcher_call, legacy>>

\* process_item, "1. Process image": image_processor.image_to_numpy returns
\* the array that process_item then passes to detect and to extract; its
\* argument is the upload as the endpoints read or stored it
CallImageToNumpy ==
    /\ service_call.kind = "image_to_numpy"
    /\ ~service_call.done
    /\ service_call' = [service_call EXCEPT
          !.done = TRUE,
          !.result = image_to_numpy(service_call.image_data)]
    /\ UNCHANGED <<api, matcher_call, legacy>>

NextServices ==
    \/ CallDetect
    \/ CallImageToNumpy

SpecServices == InitServices /\ [][NextServices]_vars

(***************************************************************************)
(* Properties                                                              *)
(***************************************************************************)
\* the request in slot r is a process_item caller (submission or reprocess)
Pipeline(r) == req[r].kind \in {"submit", "reprocess"}

\* slot r takes the step in which process_item's commit succeeds
Commits(r) == req[r].pc = "commit" /\ req'[r].pc = "returned"

\* slot r takes the step that ends a request whose process_item raised
EndsRaised(r) == req[r].pc = "raised" /\ req'[r].pc = "idle"

\* C1: a process_item run on an item already committed as processed with the
\* same embedding, all of whose matches already have a committed Match row
\* for the same (user_item, matched_item) pair, commits no new Match row and
\* leaves the item's match_count as it was.
C1_RerunAddsNothing ==
    [][\A r \in Reqs :
        (/\ Pipeline(r) /\ Commits(r)
         /\ dbItems[req[r].item].ai_processed
         /\ req[r].embedding # None
         /\ dbItems[req[r].item].embedding = req[r].embedding
         /\ \A k \in 1..Len(req[r].pend) :
               PairRows(dbMatches, req[r].pend[k].user_item_id,
                        req[r].pend[k].matched_item_id) > 0)
        => /\ dbMatches' = dbMatches
           /\ dbItems'[req[r].item].match_count
                = dbItems[req[r].item].match_count]_vars

\* C2: the Match table holds at most one row per unordered pair of items.
C2_OneRowPerPair ==
    \A a \in ItemIds, b \in ItemIds :
        a <= b => PairRows(dbMatches, a, b)
                  + (IF a # b THEN PairRows(dbMatches, b, a) ELSE 0) <= 1

\* C3: when a process_item run commits after a concurrent transaction has
\* committed the Match row (B, A) for the pair it matched as (A, B), the run
\* inserts no row for that pair.
C3_SecondCommitSkips ==
    [][\A r \in Reqs :
        (Pipeline(r) /\ Commits(r))
        => \A k \in 1..Len(req[r].pend) :
              LET a == req[r].pend[k].user_item_id
                  b == req[r].pend[k].matched_item_id
              IN  <<b, a>> \in req[r].during
                  => PairRows(dbMatches', a, b) = PairRows(dbMatches, a, b)]_vars

\* C4: two process_item invocations for the same item are never both between
\* their AI-field update and their commit.
C4_PerItemSerialized ==
    \A r1 \in Reqs, r2 \in Reqs :
        (r1 # r2 /\ Pipeline(r1) /\ Pipeline(r2)
         /\ req[r1].item = req[r2].item)
        => ~(InProcess(r1) /\ InProcess(r2))

\* C5: with the detector and the extractor unavailable, a process_item run on
\* a decodable image never fetches candidates, adds no Match, raises only on
\* a database error, and once it has returned the item is committed with
\* ai_processed = TRUE and the result reports matches_found = 0.
C5_UnavailableStillProcessed ==
    \A r \in Reqs :
        (Pipeline(r) /\ ~detector_model /\ ~extractor_model
         /\ Decodable(req[r].image))
        => /\ req[r].pc # "candidates"
           /\ ~req[r].fetched
           /\ req[r].pend = << >>
           /\ req[r].matches_found = 0
           /\ req[r].pc = "raised" => req[r].err \in {"flush", "commit"}
           /\ req[r].pc = "returned"
                => /\ dbItems[req[r].item].ai_processed
                   /\ req[r].mem.match_count = req[r].base.match_count

\* C5 witness: such a run has returned
C5_Witness ==
    \E r \in Reqs :
        /\ Pipeline(r) /\ ~detector_model /\ ~extractor_model
        /\ Decodable(req[r].image)
        /\ req[r].pc = "returned"
        /\ dbItems[req[r].item].ai_processed
        /\ req[r].embedding = None
        /\ req[r].matches_found = 0

\* C6: the writes of a process_item run that raised become durable together
\* or not at all: when the step that ends its request changes the item or
\* the matches, then the committed state holds the run's AI fields, every
\* Match row of the run (those it added and those the exception cut off) and
\* a match_count raised by their number.
C6_FailedRunAllOrNothing ==
    [][\A r \in Reqs :
        (Pipeline(r) /\ EndsRaised(r))
        => LET q == req[r]
               i == q.item
               rows == q.pend \o q.skipped
           IN  (dbItems'[i] # dbItems[i] \/ dbMatches' # dbMatches)
               => /\ \A c \in AICols : dbItems'[i][c] = q.mem[c]
                  /\ dbMatches' = dbMatches (+) SeqToBag(rows)
                  /\ dbItems'[i].match_count
                         = dbItems[i].match_count + Len(rows)]_vars

\* C7: when the candidate fetch or the commit of process_item raised, the
\* item is committed with the AI fields of that run once the request ended,
\* for a submission and for a reprocess alike.
C7_FailedRunKeepsAIFields ==
    [][\A r \in Reqs :
        (Pipeline(r) /\ EndsRaised(r)
         /\ req[r].err \in {"candidates", "commit"})
        => \A c \in AICols : dbItems'[req[r].item][c] = req[r].mem[c]]_vars

\* C8: process_item never raises because the detector's forward pass raised.
C8_DetectorFailureRecovered ==
    \A r \in Reqs : ~(Pipeline(r) /\ req[r].pc = "raised"
                      /\ req[r].err = "detect")

\* C9: no committed Item row belongs to a submission whose image fails
\* validation or decoding.
C9_InvalidImageNotStored ==
    \A i \in DOMAIN dbItems : validate_image(uploads[i]) /\ Decodable(uploads[i])

\* C10: a submission with a valid image has its Item row committed, and its
\* response carries ai_error exactly when process_item raised.
C10_AiErrorIffFailed ==
    \A r \in Reqs :
        (req[r].kind = "submit" /\ req[r].pc \in {"returned", "raised"}
         /\ validate_image(req[r].image))
        => /\ req[r].item \in DOMAIN dbItems
           /\ SubmitResponse(req[r], dbMatches).status = 201
           /\ SubmitResponse(req[r], dbMatches).ai_error
                <=> (req[r].pc = "raised")

\* slot r takes the step that fetches the candidates and creates the Match
\* rows of its run (process_item's step 5, or the matching task's)
MatchStep(r) ==
    \/ req[r].pc = "candidates" /\ req'[r].pc = "commit"
    \/ req[r].pc = "task_match" /\ req'[r].pc = "task_commit"

CandidateScore(r, id) ==
    calculate_match_score(similarity(req[r].embedding, dbItems[id].embedding),
                          item_to_dict(req[r].item, req[r].mem),
                          item_to_dict(id, dbItems[id]))

\* C12: every Match row a run creates carries the final_score of its
\* candidate as similarity_score, that score is at least
\* settings.min_match_similarity, and the row's status is pending; no
\* committed Match row has a similarity_score below the setting.
C12_RowsReachThreshold ==
    [][/\ \A r \in Reqs : MatchStep(r) =>
            \A k \in 1..Len(req'[r].pend) :
                LET row == req'[r].pend[k]
                IN  /\ row.similarity_score
                          = CandidateScore(r, row.matched_item_id).final_score
                    /\ row.similarity_score >= min_match_similarity
                    /\ row.status = "pending"
       /\ \A m \in BagToSet(dbMatches') :
            m.similarity_score >= min_match_similarity]_vars

\* a run over a table whose only candidate passes the visual pre-filter but
\* scores below the setting has fetched it and created no row
C12_Witness ==
    \E r \in Reqs :
        /\ req[r].pc \in {"commit", "task_commit"}
        /\ req[r].fetched
        /\ req[r].pend = << >>
        /\ \E i \in DOMAIN dbItems :
              /\ i # req[r].item
              /\ dbItems[i].status = "open"
              /\ dbItems[i].user_id # req[r].mem.user_id
              /\ dbItems[i].type # req[r].mem.type
              /\ CandidateScore(r, i).visual_similarity >= MIN_VISUAL_SIMILARITY
              /\ CandidateScore(r, i).final_score < min_match_similarity

\* C13: no candidate that find_matches returns has a visual similarity (the
\* dot product of the embeddings clamped into [0, 1]) below
\* MIN_VISUAL_SIMILARITY, whatever its metadata and the min_score given.
C13_PrefilterOnVisualSimilarity ==
    Returned =>
        \A k \in 1..Len(matcher_call.matches) :
            /\ matcher_call.matches[k].visual_similarity
                  >= MIN_VISUAL_SIMILARITY
            /\ \A c \in CalledCandidates(matcher_call.matches[k].item_id) :
                  similarity(matcher_call.source_embedding, c.embedding)
                      >= MIN_VISUAL_SIMILARITY

\* a call has returned matches and left out a candidate whose final_score
\* reaches the threshold but whose visual similarity is below the pre-filter
C13_Witness ==
    /\ Returned
    /\ matcher_call.matches # << >>
    /\ \E i \in DOMAIN matcher_call.candidates :
          LET c == matcher_call.candidates[i]
          IN  /\ similarity(matcher_call.source_embedding, c.embedding)
                    < MIN_VISUAL_SIMILARITY
              /\ CallScore(c).final_score >= CallThreshold
              /\ \A k \in 1..Len(matcher_call.matches) :
                    matcher_call.matches[k].item_id # c.metadata.id

\* C14: find_matches returns candidates that pass both filters, each once,
\* ordered by final_score non-increasing and cut to max_results: it returns
\* min(number of passing candidates, max_results) elements, no passing
\* candidate it leaves out has a strictly greater final_score than one it
\* returns, and an empty candidate list gives an empty result.
C14_SortedAndTruncated ==
    Returned =>
        LET matches == matcher_call.matches
            ids == {matches[k].item_id : k \in 1..Len(matches)}
        IN  /\ Len(matches) <= matcher_call.max_results
            /\ Len(matches) = Min(Cardinality(Passing), matcher_call.max_results)
            /\ Cardinality(ids) = Len(matches)
            /\ \A k \in 1..Len(matches) :
                  \E c \in Passing :
                      /\ c.metadata.id = matches[k].item_id
                      /\ CallScore(c).final_score = matches[k].final_score
            /\ \A k \in 1..(Len(matches) - 1) :
                  matches[k].final_score >= matches[k + 1].final_score
            /\ \A c \in Passing :
                  c.metadata.id \notin ids =>
                      \A k \in 1..Len(matches) :
                          CallScore(c).final_score <= matches[k].final_score
            /\ matcher_call.candidates = << >> => matches = << >>

\* a call has returned fewer candidates than pass the filters, in an order
\* other than that of the candidate list, with distinct scores
C14_Witness ==
    /\ Returned
    /\ Cardinality(Passing) > matcher_call.max_results
    /\ Len(matcher_call.matches) >= 2
    /\ matcher_call.matches[1].final_score > matcher_call.matches[2].final_score
    /\ matcher_call.candidates[1].metadata.id
          \notin {matcher_call.matches[k].item_id :
                     k \in 1..Len(matcher_call.matches)}

\* the confidence tier that the thresholds give a reported final_score
TierOf(final_score) ==
    IF final_score >= HIGH_CONFIDENCE THEN "high"
    ELSE IF final_score >= MEDIUM_CONFIDENCE THEN "medium"
    ELSE "low"

\* a calculate_match_score call has returned
Scored == matcher_call.kind = "calculate_match_score" /\ matcher_call.done

\* C15: the confidence of a MatchCandidate is the tier of its reported
\* final_score (rounded to 3 decimals): high iff final_score >= 0.70, medium
\* iff 0.45 <= final_score < 0.70, low iff final_score < 0.45.
C15_TierOfReportedScore ==
    /\ Scored =>
          matcher_call.score.confidence = TierOf(matcher_call.score.final_score)
    /\ Returned =>
          \A k \in 1..Len(matcher_call.matches) :
              matcher_call.matches[k].confidence
                  = TierOf(matcher_call.matches[k].final_score)

\* the score of the finished calculate_match_score call's items under the
\* visual similarity v
ScoreAt(v) ==
    calculate_match_score(v, matcher_call.source_item, matcher_call.target_item)

\* C16 (as stated): with the metadata of both items fixed, any greater visual
\* similarity gives a strictly greater final_score.
C16_StrictlyIncreasing ==
    Scored =>
        \A v2 \in Visuals :
            v2 > matcher_call.visual_similarity =>
                ScoreAt(v2).final_score > matcher_call.score.final_score

\* C16 (amended): with the metadata of both items fixed, a greater visual
\* similarity gives a strictly greater unrounded weighted sum and a
\* final_score (rounded to 3 decimals) that is not smaller, and strictly
\* greater when the visual similarities differ by at least 0.002.
C16_IncreasingUpToRounding ==
    Scored =>
        \A v2 \in Visuals :
            v2 > matcher_call.visual_similarity =>
                /\ ScoreAt(v2).raw_score > matcher_call.score.raw_score
                /\ ScoreAt(v2).final_score >= matcher_call.score.final_score
                /\ v2 >= matcher_call.visual_similarity + 2 =>
                      ScoreAt(v2).final_score > matcher_call.score.final_score

\* a call has returned a final_score that the next greater visual similarity
\* also gets
C16_Witness ==
    /\ Scored
    /\ matcher_call.visual_similarity + 1 \in Visuals
    /\ ScoreAt(matcher_call.visual_similarity + 1).final_score
          = matcher_call.score.final_score
    /\ ScoreAt(matcher_call.visual_similarity + 1).raw_score
          > matcher_call.score.raw_score

\* the session of request q has a transaction open: a session begins one
\* with its first statement (the refresh after create_*'s commit, the SELECT
\* of reprocess_item, the SELECT that opens process_item) and keeps it until
\* the next commit or rollback
InTransaction(q) == q.pc \in {"analyse", "candidates", "commit"}

\* slot r takes the step of process_item that decodes the image and runs
\* detection and feature extraction
RunsInference(r) ==
    /\ Pipeline(r)
    /\ req[r].pc = "analyse"
    /\ req'[r].pc # "analyse"

\* C17: in process_item no database transaction is open while image decode,
\* object detection or feature extraction runs; the transaction that updates
\* the item and inserts the Match rows begins after them.
C17_NoTransactionDuringInference ==
    [][\A r \in Reqs : RunsInference(r) => ~InTransaction(req[r])]_vars

\* how each coroutine calls its model inference: process_item calls detect
\* and extract directly; get_image_embedding_async hands get_image_embedding
\* to a ThreadPoolExecutor with run_in_executor
InferenceCall ==
    [process_item |-> "direct", get_image_embedding_async |-> "executor"]

\* the thread a coroutine's inference runs on: a direct call runs on the
\* thread of the coroutine, the event loop's
InferenceThread(coroutine) ==
    IF InferenceCall[coroutine] = "executor" THEN "worker" ELSE "event_loop"

\* C18: the detection and feature extraction of a request never run on the
\* event-loop thread (they run in a worker pool, so the event loop can serve
\* other requests meanwhile).
C18_InferenceOffEventLoop ==
    [][\A r \in Reqs :
        RunsInference(r) => InferenceThread("process_item") # "event_loop"]_vars

\* the last legacy response: the item it created, the ids it returned as
\* matches, and the stored items of the opposite type
LastItem == legacy.items[legacy.last[1].item_id]
LastMatches == legacy.last[1].matches
LastIds == {LastMatches[k].item_id : k \in 1..Len(LastMatches)}
LastOpposite ==
    {i \in DOMAIN legacy.items : legacy.items[i].type = Opposite(LastItem.type)}

\* the cosine similarity of the stored item i to the item of the last report
LastSimilarity(i) ==
    cosine_similarity(LastItem.embedding, legacy.items[i].embedding)[1]

\* what C19 and its amendment share: the matches of a report are stored
\* items of the opposite type, each once, with their cosine similarity, in
\* non-increasing order of it, at most TOP_K_MATCHES; nothing when no item of
\* the opposite type is stored
TopMatchesOfOppositeType ==
    /\ LastIds \subseteq LastOpposite
    /\ Cardinality(LastIds) = Len(LastMatches)
    /\ Len(LastMatches) <= TOP_K_MATCHES
    /\ \A k \in 1..Len(LastMatches) :
          LastMatches[k].similarity = LastSimilarity(LastMatches[k].item_id)
    /\ \A k \in 1..(Len(LastMatches) - 1) :
          LastMatches[k].similarity >= LastMatches[k + 1].similarity
    /\ LastOpposite = {} => LastMatches = << >>

C20_MatchedOnlyByMutualConfirmation ==
    [][\A i \in DOMAIN dbItems :
        (dbItems[i].status = "open" /\ dbItems'[i].status = "matched") =>
            /\ dbMatches' # dbMatches
            /\ \E m \in BagToSet(dbMatches') :
                  /\ i \in {m.user_item_id, m.matched_item_id}
                  /\ m.user_item_owner_confirmed = Some(TRUE)
                  /\ m.matched_item_owner_confirmed = Some(TRUE)]_vars

\* a step replaces the Match row m by the row n of the same pair of items
\* (confirm_match stores an answer)
Answered(m, n) ==
    /\ m # n
    /\ m.user_item_id = n.user_item_id
    /\ m.matched_item_id = n.matched_item_id
    /\ dbMatches' = (dbMatches (-) SetToBag({m})) (+) SetToBag({n})

\* the moves of a Match's status along PENDING -> CONTACTED -> CLAIMED or
\* into REJECTED / EXPIRED
StatusMoves ==
    { <<"pending", "contacted">>, <<"contacted", "claimed">>,
      <<"pending", "rejected">>, <<"contacted", "rejected">>,
      <<"pending", "expired">>, <<"contacted", "expired">> }

\* C21: a Match's status only moves along PENDING -> CONTACTED -> CLAIMED or
\* into REJECTED / EXPIRED: an answer stored by confirm_match leaves the
\* match REJECTED when an owner has rejected, CLAIMED when both owners have
\* confirmed and CONTACTED when one has; it never moves a CLAIMED match to
\* another status nor a REJECTED match back to PENDING, CONTACTED or CLAIMED.
C21_StatusMovesForward ==
    [][\A m \in BagToSet(dbMatches), n \in BagToSet(dbMatches') :
        Answered(m, n) =>
            /\ n.status =
                  IF Some(FALSE) \in {n.user_item_owner_confirmed,
                                      n.matched_item_owner_confirmed}
                  THEN "rejected"
                  ELSE IF n.user_item_owner_confirmed = Some(TRUE)
                          /\ n.matched_item_owner_confirmed = Some(TRUE)
                  THEN "claimed"
                  ELSE "contacted"
            /\ m.status = "claimed" => n.status = "claimed"
            /\ m.status = "rejected"
                  => n.status \notin {"pending", "contacted", "claimed"}
            /\ n.status # m.status => <<m.status, n.status>> \in StatusMoves]_vars

\* the positions of the returned detections whose class is in CLASS_MAPPING
MappedPositions ==
    {k \in DOMAIN service_call.result.detections :
        service_call.result.detections[k][1] \in DOMAIN CLASS_MAPPING}

\* C22: detect returns the boxes of the forward pass sorted by non-increasing
\* confidence; primary_class is the category of the first detection in that
\* order whose class name is in CLASS_MAPPING, with that detection's
\* confidence as primary_confidence (so a mapped detection of lower
\* confidence wins over an unmapped top detection); when no detection maps,
\* primary_class is the raw class name of the highest-confidence detection;
\* with no detections or no model, primary_class is null and
\* primary_confidence is 0.
C22_PrimaryIsFirstMapped ==
    (service_call.kind = "detect" /\ service_call.done) =>
        LET result == service_call.result
            detections == result.detections
        IN  /\ \A k \in 1..(Len(detections) - 1) :
                  detections[k][2] >= detections[k + 1][2]
            /\ IF ~service_call.model_loaded
               THEN detections = << >>
               ELSE SeqToBag(detections) = SeqToBag(service_call.results)
            /\ IF detections = << >>
               THEN result.primary_class = None /\ result.primary_confidence = 0
               ELSE IF MappedPositions # {}
               THEN LET k == CHOOSE i \in MappedPositions :
                                 \A j \in MappedPositions : i <= j
                    IN  /\ result.primary_class
                              = Some(CLASS_MAPPING[detections[k][1]])
                        /\ result.primary_confidence = detections[k][2]
                        /\ \A j \in MappedPositions :
                              detections[j][2] <= result.primary_confidence
               ELSE /\ result.primary_class = Some(detections[1][1])
                    /\ result.primary_confidence = detections[1][2]
                    /\ \A j \in DOMAIN detections :
                          detections[j][2] <= result.primary_confidence

\* a call has returned the category of a mapped detection that an unmapped
\* detection of higher confidence precedes
C22_Witness ==
    /\ service_call.kind = "detect" /\ service_call.done
    /\ Len(service_call.result.detections) >= 2
    /\ service_call.result.detections[1][1] \notin DOMAIN CLASS_MAPPING
    /\ service_call.result.primary_class \in {Some("phone"), Some("bag")}
    /\ service_call.result.primary_confidence
          < service_call.result.detections[1][2]

\* both items of the call carry latitude and longitude
BothCoordinates(source_item, target_item) ==
    /\ source_item.latitude # None /\ source_item.longitude # None
    /\ target_item.latitude # None /\ target_item.longitude # None

\* the distance between the items of the call, in millimetres
CallDistance ==
    calculate_distance(matcher_call.source_item.latitude,
                       matcher_call.source_item.longitude,
                       matcher_call.target_item.latitude,
                       matcher_call.target_item.longitude)[1]

\* C23: in calculate_match_score, when both items carry latitude and
\* longitude the location component is 1.0 for a distance d <= 1 km,
\* max(0.3, 1 - d/100) for 1 < d <= 100 km and 0.1 for d > 100 km, and is
\* not greater than the component of any target that is nearer; when
\* coordinates are missing on either side it is 1.0 for location names that
\* are equal (compared in lower case), 0.8 when one name contains the other,
\* and 0.5 otherwise (also when a name is missing).
C23_LocationComponent ==
    Scored =>
        LET source_item == matcher_call.source_item
            target_item == matcher_call.target_item
            location == matcher_call.score.scores.location
            source_loc == Lower(source_item.location)
            target_loc == Lower(target_item.location)
        IN  IF BothCoordinates(source_item, target_item)
            THEN /\ CallDistance <= Unit => location = Unit
                 /\ (CallDistance > Unit /\ CallDistance <= 100 * Unit)
                       => location = Max(300000, Unit - CallDistance \div 100)
                 /\ CallDistance > 100 * Unit => location = 100000
                 /\ \A tp \in TargetPlaces :
                       LET nearer == [target_item EXCEPT
                                         !.latitude = tp.latitude,
                                         !.longitude = tp.longitude]
                       IN  (/\ BothCoordinates(source_item, nearer)
                            /\ calculate_distance(
                                  source_item.latitude, source_item.longitude,
                                  nearer.latitude, nearer.longitude)[1]
                                  <= CallDistance)
                           => calculate_match_score(
                                  matcher_call.visual_similarity,
                                  source_item, nearer).scores.location
                              >= location
            ELSE location =
                    IF source_loc = "" \/ target_loc = "" THEN 500000
                    ELSE IF source_loc = target_loc THEN Unit
                    ELSE IF Contains(source_loc, target_loc)
                            \/ Contains(target_loc, source_loc) THEN 800000
                    ELSE 500000

\* a call has returned for items between 70 and 100 km apart, where the
\* floor of the decay holds the component at 0.3
C23_Witness ==
    /\ Scored
    /\ BothCoordinates(matcher_call.source_item, matcher_call.target_item)
    /\ CallDistance > 70 * Unit
    /\ CallDistance <= 100 * Unit
    /\ matcher_call.score.scores.location = 300000

\* C24: in calculate_match_score the time component is 1.0 when the absolute
\* difference between the two date-times is at most 24 hours,
\* max(0.3, 1 - hours/(60*24)) when it is more than 24 hours and at most 60
\* days, 0.1 beyond 60 days, and 0.5 when either date_time is missing or
\* unparseable; it is the same with source and target exchanged.
C24_TimeComponent ==
    Scored =>
        LET source_item == matcher_call.source_item
            target_item == matcher_call.target_item
            time == matcher_call.score.scores.time
            known(item) == item.date_time # None
                           /\ item.date_time[1] # Malformed
            minutes == Abs(source_item.date_time[1] - target_item.date_time[1])
            \* 1 - hours/(60*24) in millionths, times 864
            decay == 864 * Unit - 10000 * minutes
        IN  /\ IF known(source_item) /\ known(target_item)
               THEN /\ minutes <= 24 * 60 => time = Unit
                    /\ (minutes > 24 * 60 /\ minutes <= 60 * 24 * 60) =>
                          IF decay <= 864 * 300000 THEN time = 300000
                          ELSE 864 * time >= decay /\ 864 * time < decay + 864
                    /\ minutes > 60 * 24 * 60 => time = 100000
               ELSE time = 500000
            /\ calculate_match_score(matcher_call.visual_similarity,
                                     target_item, source_item).scores.time
                  = time

\* a call has returned for a target dated more than 24 hours and less than
\* 42 days before the source, with a component between 0.3 and 1.0
C24_Witness ==
    /\ Scored
    /\ matcher_call.source_item.date_time = Some(100000)
    /\ matcher_call.target_item.date_time # None
    /\ matcher_call.target_item.date_time[1] # Malformed
    /\ matcher_call.target_item.date_time[1] < 100000 - 24 * 60
    /\ matcher_call.score.scores.time > 300000
    /\ matcher_call.score.scores.time < Unit

\* C25: for a visual similarity in [0, 1] and any metadata of the two items,
\* each of the six component scores is in [0, 1], the six weights sum to 1.0
\* and the final_score that calculate_match_score returns is in [0, 1]; hence
\* the similarity_score of the Match row made from the candidate is in
\* [0, 1].
C25_ScoresInUnitInterval ==
    Scored =>
        LET scores == matcher_call.score.scores
        IN  /\ matcher_call.visual_similarity \in 0..1000
            /\ DOMAIN scores = DOMAIN WEIGHTS
            /\ \A key \in DOMAIN scores : scores[key] >= 0 /\ scores[key] <= Unit
            /\ WEIGHTS.visual + WEIGHTS.category + WEIGHTS.color + WEIGHTS.brand
                  + WEIGHTS.location + WEIGHTS.time = 1000
            /\ matcher_call.score.raw_score >= 0
            /\ matcher_call.score.raw_score <= 1000 * Unit
            /\ matcher_call.score.final_score \in 0..1000
            /\ NewMatch(matcher_call.source_item.id,
                        matcher_call.score).similarity_score \in 0..1000

\* a call has returned the final_score 1.0: identical embeddings and equal
\* category, colour, brand, place and time
C25_Witness ==
    /\ Scored
    /\ matcher_call.visual_similarity = 1000
    /\ \A key \in DOMAIN WEIGHTS : matcher_call.score.scores[key] = Unit
    /\ matcher_call.score.final_score = 1000

\* C30: find_matches applies the caller's min_score exactly: for every
\* min_score passed, 0 included, the candidates it returns are, up to the cut
\* to max_results, exactly those that pass the visual pre-filter and whose
\* final_score is at least min_score; MIN_FINAL_SCORE is the threshold only
\* when no min_score is passed.
C30_MinScoreAppliedExactly ==
    Returned =>
        LET threshold == IF matcher_call.min_score = None THEN MIN_FINAL_SCORE
                         ELSE matcher_call.min_score[1]
            kept == {matcher_call.candidates[k] : k \in
                        {i \in DOMAIN matcher_call.candidates :
                            LET c == matcher_call.candidates[i]
                            IN  /\ similarity(matcher_call.source_embedding,
                                              c.embedding)
                                      >= MIN_VISUAL_SIMILARITY
                                /\ CallScore(c).final_score >= threshold}}
        IN  /\ Len(matcher_call.matches)
                  = Min(Cardinality(kept), matcher_call.max_results)
            /\ \A k \in 1..Len(matcher_call.matches) :
                  /\ matcher_call.matches[k].final_score >= threshold
                  /\ matcher_call.matches[k].item_id
                        \in {c.metadata.id : c \in kept}

\* C26: the image array that process_item hands to the object detector and
\* the feature extractor is in RGB, has its rows upright (the EXIF
\* orientation of the upload applied) and has no dimension above
\* MAX_DIMENSION.
C26_ArrayNormalised ==
    (service_call.kind = "image_to_numpy" /\ service_call.done) =>
        /\ service_call.result.mode = "RGB"
        /\ service_call.result.orientation = 1
        /\ service_call.result.width <= MAX_DIMENSION
        /\ service_call.result.height <= MAX_DIMENSION

\* C27: in every committed state of the database each item's match_count
\* equals the number of Match rows whose user_item_id is that item, and no
\* step lowers an item's match_count (no step deletes an Item or a Match).
C27_MatchCountCountsRows ==
    [][\A i \in DOMAIN dbItems' :
          /\ dbItems'[i].match_count = UserItemRows(dbMatches', i)
          /\ i \in DOMAIN dbItems
                => dbItems'[i].match_count >= dbItems[i].match_count]_vars

\* C28: no step sets a committed embedding back to null; a process_item run
\* whose extraction returned null on an item that has an embedding leaves
\* the embedding as it is, overwrites detected_objects and ai_category with
\* the results of its own detection, goes on to its commit without a
\* candidate search, and its commit adds no Match and keeps the embedding.
C28_NullExtractionKeepsEmbedding ==
    [][/\ \A i \in DOMAIN dbItems :
            dbItems[i].embedding # None => dbItems'[i].embedding # None
       /\ \A r \in Reqs :
            (RunsInference(r) /\ req[r].mem.embedding # None
             /\ req'[r].pc # "raised" /\ req'[r].embedding = None)
            => LET detection_result == detect(detector_model, req[r].image)
                   detected_objects == get_detections_dict(detection_result)
               IN  /\ req'[r].mem.embedding = req[r].mem.embedding
                   /\ req'[r].mem.ai_category = detection_result.primary_class
                   /\ req'[r].mem.detected_objects =
                         IF detected_objects # << >> THEN detected_objects
                         ELSE None
                   /\ req'[r].pc = "commit"
                   /\ ~req'[r].fetched
                   /\ req'[r].pend = << >>
       /\ \A r \in Reqs :
            (Pipeline(r) /\ Commits(r) /\ req[r].embedding = None)
            => /\ dbMatches' = dbMatches
               /\ ~req[r].fetched
               /\ req'[r].matches_found = 0
               /\ dbItems'[req[r].item].embedding
                     = dbItems[req[r].item].embedding]_vars

\* a run whose extraction returned null has returned on an item that keeps
\* the embedding of an earlier run
C28_Witness ==
    \E r \in Reqs :
        /\ Pipeline(r)
        /\ req[r].pc = "returned"
        /\ req[r].embedding = None
        /\ ~req[r].fetched
        /\ dbItems[req[r].item].embedding # None
        /\ dbItems[req[r].item].ai_processed

\* C29: a run of find_matches_for_item adds no Match row for a pair
\* (user_item_id, matched_item_id) that has a row when the run looks it up,
\* and at most one row per pair.  A run that finds every pair present (the
\* re-run against an unchanged candidate set) commits nothing: no Match row,
\* no notification, and the item's match_count stays.  A run that commits
\* new rows adds exactly these rows and, for each of them, exactly one
\* notification addressed to the owner of the source item; a run whose
\* commit fails leaves the tables as they were.
C29_TaskRerunAddsNothing ==
    [][\A r \in Reqs :
         LET q == req[r]
             pend == req'[r].pend
             owner == dbItems[q.item].user_id
             notes == [k \in 1..Len(q.pend) |->
                         [user_id |-> owner, type |-> "match",
                          item_id |-> q.pend[k].user_item_id,
                          matched_item_id |-> q.pend[k].matched_item_id]]
         IN  /\ (q.pc = "task_match" /\ req'[r].pc = "task_commit")
                => /\ \A k \in 1..Len(pend) :
                        /\ pend[k].user_item_id = q.item
                        /\ PairRows(dbMatches, q.item,
                                    pend[k].matched_item_id) = 0
                        /\ \A j \in 1..Len(pend) :
                              pend[j].matched_item_id = pend[k].matched_item_id
                              => j = k
                   /\ req'[r].matches_found = Len(pend)
                   /\ UNCHANGED <<dbItems, dbMatches, dbNotifications>>
             /\ (q.pc = "task_match" /\ req'[r].pc = "idle")
                => UNCHANGED <<dbItems, dbMatches, dbNotifications>>
             /\ (q.pc = "task_commit" /\ req'[r].pc = "idle")
                => IF faults' # faults \/ q.pend = << >>
                   THEN UNCHANGED <<dbItems, dbMatches, dbNotifications>>
                   ELSE /\ dbMatches' = dbMatches (+) SeqToBag(q.pend)
                        /\ dbNotifications' = dbNotifications (+) SeqToBag(notes)
                        /\ BagCardinality(dbNotifications') =
                              BagCardinality(dbNotifications) + Len(q.pend)
                        /\ dbItems'[q.item].match_count =
                              q.base.match_count + Len(q.pend)]_vars

\* a second run of the task for an item has looked its pairs up and found
\* the row that an earlier run committed with its one notification and its
\* increment of match_count: it is about to commit with nothing to add
C29_Witness ==
    \E r \in Reqs :
       /\ req[r].kind = "task" /\ req[r].pc = "task_commit"
       /\ req[r].pend = << >>
       /\ \E m \in BagToSet(dbMatches) :
             /\ m.user_item_id = req[r].item
             /\ PairRows(dbMatches, m.user_item_id, m.matched_item_id) = 1
             /\ BagCardinality(dbNotifications) = 1
             /\ \A n \in BagToSet(dbNotifications) :
                   /\ n.user_id = dbItems[req[r].item].user_id
                   /\ n.item_id = m.user_item_id
                   /\ n.matched_item_id = m.matched_item_id
             /\ dbItems[req[r].item].match_count = 1

=============================================================================
